---- MODULE Spec2Model ----
(***************************************************************************)
(* Model of the MetaUploader upload orchestrator (src/meta_api.py) and of  *)
(* the per-request upload worker (src/app.py).                             *)
(*                                                                         *)
(* Python None is written "None".  time.sleep is modelled by appending the *)
(* slept duration to `sleeps`; self.logs by the sequence `logs`.           *)
(***************************************************************************)
EXTENDS Integers, Sequences, FiniteSets, TLC

(* ------------------------- program constants --------------------------- *)
RATE_LIMIT_THRESHOLD == 80
RATE_LIMIT_PAUSE_SECONDS == 300
MAX_RETRIES == 3
RETRY_BACKOFF == 5

(* ------------------------------ bounds --------------------------------- *)
\* number of _with_retry operations run in a row on one uploader
MaxOps == 2
\* size of a usage header: one per resource plus one per usage entry
MaxHeaderSize == 3
\* number of items of a batch handed to process_queue
MaxItems == 2
\* number of _normalize_drive_link calls chained on one link
MaxNormalize == 2
\* number of ad-set duplications requested in a row
MaxDups == 2

VARIABLES
    \* ---- uploader state shared by the retry executor and the rate limiter
    logs,        \* self.logs, entries [kind, attempt, detail]
    sleeps,      \* durations handed to time.sleep, in call order
    \* ---- _with_retry
    rres,        \* outcome of the last _with_retry call
    netTrace,    \* remote calls and pauses of the last _with_retry call
    usageDue,    \* a response met the threshold and no cool-down ran since
    ops,         \* number of _with_retry calls made
    thunk,       \* the function handed to the last _with_retry call
    \* ---- check_rate_limit
    hdr,         \* the response_headers argument
    rl,          \* outcome of check_rate_limit: [done, ret, raised]
    \* ---- create_creative_with_placements, primary strategy
    cin,         \* its arguments: feed_media, stories_media, instagram_user_id
    cout,        \* the payload try_complex_creative builds, or the error
    \* ---- process_queue
    items,       \* queue_items
    cfg,         \* global_config
    q_adset_id,  \* the adset_id argument of process_queue
    qpc,         \* position in process_queue
    qi,          \* the loop index i
    cur,         \* locals of the iteration: ad_name, feed_media,
                 \* stories_media, creative_id, and the exception in flight
    results,     \* the results list
    adRequests,  \* the POST /ads requests sent
    started,     \* items whose "Processando i/total" line was logged
    hist,        \* per started item: a remote call was made, one failed, the id
                 \* the ad endpoint returned, the exception raised
    delays,      \* number of smart_delay calls
    interDelays, \* items after which the between-ads delay ran
    summary,     \* the counts of the closing log line
    \* ---- upload worker (app.py, run_upload_task)
    wpc,         \* position of the worker thread
    form,        \* the request's form and files
    log_queue,   \* queue.Queue() between worker and response generator:
                 \* every item put so far, in order
    wenv,        \* what the remote side answers to each remote step
    wrun,        \* the steps the worker executed and the ad set of the ad
    \* ---- response generator (app.py, generate_ndjson)
    taken,       \* number of items log_queue.get() has returned
    stream,      \* the items yielded to the HTTP response
    gpc,         \* position of the generator
    \* ---- _normalize_drive_link
    link,        \* the link handed to the first call
    norm,        \* outcome of each call, every call after the first taking
                 \* the value the previous one returned
    \* ---- create_creative_with_placements, the whole call
    \* ---- wait_for_video_ready / wait_for_image_ready
    poll,        \* the asset kind, the position in the loop, the seconds
                 \* since start_time, what the polls observed, the return
    \* ---- _post_creative
    posts,       \* per call: the request, the assets handed to the pollers
                 \* with what each poller returned, whether the POST was sent
    \* ---- upload_media of a local file
    mres,        \* the path, what the frame tool and the remote calls did,
                 \* the outcome of extract_video_thumbnail and of upload_media
    \* ---- get_identity_data
    idt,         \* the positions of the calling thread and of the two pool
                 \* tasks, what each fetch returned, the two result slots,
                 \* the argument of the social-account lookup, the return
    \* ---- _download_file
    dl,          \* one call: what the server answered, the requests sent,
                 \* the bodies saved to dest_path, the return, the file
    \* ---- upload_media of a URL, calls in sequence on one uploader
    um,          \* _pending_thumb_hash and, per call, the URL, what the
                 \* platform and the downloads did, the events, the outcome
    \* ---- temporary files of concurrent upload requests
    tf,          \* the clock, the files of tempfile.gettempdir() with
                 \* their writers, each worker's position and path
    \* ---- ad-set duplication
    dups,        \* per duplication: who ran it, its arguments, the copy and
                 \* update requests it sent, what it answered
    crun         \* its outcome: the exception or the id, the requests of
                 \* each run of _do with their answers, the log

rvars == <<rres, netTrace, usageDue, ops, thunk>>
lvars == <<hdr, rl>>
uvars == <<logs, sleeps>>
cvars == <<cin, cout>>
qvars == <<items, cfg, q_adset_id, qpc, qi, cur, results, adRequests, started, hist,
           delays, interDelays, summary>>
wvars == <<wpc, form, log_queue, wenv, wrun>>
gvars == <<taken, stream, gpc>>
nvars == <<link, norm>>
kvars == <<crun>>
dvars == <<dups>>
pvars == <<poll>>
ovars == <<posts>>
mvars == <<mres>>
ivars == <<idt>>
xvars == <<dl, um, tf>>

(* ========================= _log (meta_api.py:340) ====================== *)
LogEntry(kind, attempt, detail) ==
    [kind |-> kind, attempt |-> attempt, detail |-> detail]

(* ==================== _with_retry (meta_api.py:393) ==================== *)
\* One invocation of the wrapped function: it issues one remote call, whose
\* response either carries a value or makes the function raise, and carries
\* the usage percentage of the x-business-use-case-usage header.
Errors == {"e1", "e2"}
Values == {"v1"}
UsageLevels == {10, 85}

ThunkOutcomes ==
    [ok : {TRUE}, val : Values, err : {"None"}, usage : UsageLevels]
    \cup [ok : {FALSE}, val : {"None"}, err : Errors, usage : UsageLevels]

\* `if attempt < self.MAX_RETRIES` (a retry follows this failed attempt)
RetryFollows_NoFatal(attempt) == attempt <= MAX_RETRIES
RetryFollows(attempt) == attempt < MAX_RETRIES

\* `last_error = e`: the exception kept for the closing `raise last_error`
LastError_First(last_error, e) == IF last_error = "None" THEN e ELSE last_error
LastError(last_error, e) == e

\* `for attempt in range(1, self.MAX_RETRIES + 1)`
Attempts == 1 .. MAX_RETRIES

NoThunk == [k \in Attempts |-> [ok |-> TRUE, val |-> "v1", err |-> "None", usage |-> 10]]

RetryStart ==
    [raised |-> FALSE, returned |-> FALSE, value |-> "None", error |-> "None",
     invocations |-> 0, log |-> <<>>, sleeps |-> <<>>, calls |-> <<>>]

RECURSIVE RetryLoop(_, _, _)
RetryLoop(outs, attempt, st) ==
    IF attempt \notin Attempts
    THEN \* loop exhausted: `raise last_error`
         [st EXCEPT !.raised = TRUE]
    ELSE LET o  == outs[attempt]
             s1 == [st EXCEPT !.invocations = @ + 1,
                              !.calls = Append(@, [ev |-> "call", usage |-> o.usage])]
         IN IF o.ok
            THEN [s1 EXCEPT !.returned = TRUE, !.value = o.val]
            ELSE IF RetryFollows(attempt)
                 THEN RetryLoop(outs, attempt + 1,
                        [s1 EXCEPT !.error = LastError(st.error, o.err),
                                   !.log = Append(@, LogEntry("warn", attempt, o.err)),
                                   !.sleeps = Append(@, RETRY_BACKOFF),
                                   !.calls = Append(@, [ev |-> "backoff", usage |-> 0])])
                 ELSE RetryLoop(outs, attempt + 1,
                        [s1 EXCEPT !.error = LastError(st.error, o.err),
                                   !.log = Append(@, LogEntry("fatal", attempt, o.err))])

\* outs[k] is what the k-th invocation of func does, should it happen
WithRetry(outs) == RetryLoop(outs, 1, RetryStart)

(* ================= check_rate_limit (meta_api.py:348) ================== *)
\* A usage counter as json.loads delivers it: a number (k = "num"), absent
\* from the entry (k = "missing"), or a non-numeric JSON value (k = "str").
Num(n) == [k |-> "num", n |-> n]
Missing == [k |-> "missing", n |-> 0]
NonNumeric == [k |-> "str", n |-> 0]

CallCountVals == {Missing, Num(79), Num(80), NonNumeric}
CpuTimeVals == {Missing, Num(85), NonNumeric}
TotalTimeVals == {Missing, Num(80)}

\* A usage entry: a JSON object with the three counters, or a JSON number.
UsageEntries ==
    [kind : {"map"}, call_count : CallCountVals, total_cputime : CpuTimeVals,
     total_time : TotalTimeVals]
    \cup {[kind |-> "number", call_count |-> Missing, total_cputime |-> Missing,
           total_time |-> Missing]}

EntryLists(n) == UNION {[1 .. k -> UsageEntries] : k \in 0 .. n}

\* The value of one resource key: a list of entries, or a JSON number, a
\* non-empty JSON string, or a non-empty JSON object.
ResourcesOfSize(n) ==
    IF n < 1 THEN {}
    ELSE {[kind |-> "list", entries |-> es] : es \in [1 .. (n - 1) -> UsageEntries]}
         \cup (IF n = 1
               THEN {[kind |-> k, entries |-> <<>>] : k \in {"number", "string", "map"}}
               ELSE {})

RECURSIVE ResourceSeqs(_)
ResourceSeqs(n) ==
    {<<>>} \cup UNION {
        {<<r>> \o rest : r \in ResourcesOfSize(k), rest \in ResourceSeqs(n - k)}
        : k \in 1 .. n}

\* response_headers: None or empty; without the usage key (or with an empty
\* value); with a value that is not JSON; with JSON that is a list or a
\* number; with a JSON object of resources.
Headers ==
    {[kind |-> k, res |-> <<>>] :
        k \in {"no_headers", "no_key", "non_json", "json_list", "json_number"}}
    \cup {[kind |-> "json_map", res |-> rs] : rs \in ResourceSeqs(MaxHeaderSize)}

\* usage.get(name, 0)
CounterGet(c) == IF c.k = "missing" THEN Num(0) ELSE c

Max2(a, b) == IF b > a THEN b ELSE a
\* max(call_count, total_cputime, total_time)
Max3_IgnoresTime(a, b, c) == Max2(a, b)
Max3(a, b, c) == Max2(Max2(a, b), c)

\* `if max_usage >= self.RATE_LIMIT_THRESHOLD`
MeetsThreshold_Strict(m) == m > RATE_LIMIT_THRESHOLD
MeetsThreshold(m) == m >= RATE_LIMIT_THRESHOLD

\* The body of the inner loop for one entry: what it does with the entry.
ObserveEntry(e) ==
    IF e.kind # "map"
    THEN [out |-> "AttributeError", max |-> 0]      \* usage.get on a non-dict
    ELSE LET cc == CounterGet(e.call_count)
             cp == CounterGet(e.total_cputime)
             tt == CounterGet(e.total_time)
         IN IF cc.k # "num" \/ cp.k # "num" \/ tt.k # "num"
            THEN [out |-> "TypeError", max |-> 0]   \* max() or >= on a str
            ELSE LET m == Max3(cc.n, cp.n, tt.n)
                 IN IF MeetsThreshold(m)
                    THEN [out |-> "pause", max |-> m]
                    ELSE [out |-> "next", max |-> m]

\* `for usage in usages`
RECURSIVE ScanEntries(_, _)
ScanEntries(es, i) ==
    IF i > Len(es) THEN [out |-> "next", max |-> 0]
    ELSE LET o == ObserveEntry(es[i])
         IN IF o.out = "next" THEN ScanEntries(es, i + 1) ELSE o

\* `for account_id, usages in usage_data.items()`
RECURSIVE ScanResources(_, _)
ScanResources(rs, j) ==
    IF j > Len(rs) THEN [out |-> "next", max |-> 0]
    ELSE LET r == rs[j]
             o == IF r.kind = "number"
                  THEN [out |-> "TypeError", max |-> 0]      \* not iterable
                  ELSE IF r.kind \in {"string", "map"}
                  THEN [out |-> "AttributeError", max |-> 0] \* iterates strs
                  ELSE ScanEntries(r.entries, 1)
         IN IF o.out = "next" THEN ScanResources(rs, j + 1) ELSE o

\* The exceptions the try block catches: json.JSONDecodeError, TypeError
Caught == {"JSONDecodeError", "TypeError"}

CheckRateLimit(h) ==
    LET o == IF h.kind \in {"no_headers", "no_key"}
             THEN [out |-> "next", max |-> 0]
             ELSE IF h.kind = "non_json"
             THEN [out |-> "JSONDecodeError", max |-> 0]
             ELSE IF h.kind \in {"json_list", "json_number"}
             THEN [out |-> "AttributeError", max |-> 0]   \* no .items()
             ELSE ScanResources(h.res, 1)
    IN IF o.out = "pause"
       THEN [ret |-> TRUE, raised |-> "None",
             log |-> <<LogEntry("pause", o.max, "None"),
                       LogEntry("resume", 0, "None")>>,
             sleeps |-> <<RATE_LIMIT_PAUSE_SECONDS>>]
       ELSE IF o.out = "next" \/ o.out \in Caught
       THEN [ret |-> FALSE, raised |-> "None", log |-> <<>>, sleeps |-> <<>>]
       ELSE [ret |-> FALSE, raised |-> o.out, log |-> <<>>, sleeps |-> <<>>]

(* ========= create_creative_with_placements (meta_api.py:881) =========== *)
\* A media descriptor as upload_media returns it; NoneMedia is Python None.
NoneMedia ==
    [type |-> "None", hash |-> "None", id |-> "None", thumb_hash |-> "None",
     source_url |-> "None"]
ImageMedia(h) ==
    [type |-> "image", hash |-> h, id |-> "None", thumb_hash |-> "None",
     source_url |-> "None"]
VideoMedia(v, t) ==
    [type |-> "video", hash |-> "None", id |-> v, thumb_hash |-> t,
     source_url |-> "None"]
\* the descriptor upload_media returns for a URL carries 'source_url'
FromUrl(m, url) == [m EXCEPT !.source_url = url]

Hashes == {"H1", "H2"}
VideoIds == {"V1", "V2"}
ThumbHashes == {"None", "T1"}
Medias ==
    {ImageMedia(h) : h \in Hashes}
    \cup {VideoMedia(v, t) : v \in VideoIds, t \in ThumbHashes}

FEED_LABEL == "feed_creative"
STORY_LABEL == "story_creative"

\* `if not feed_media and not stories_media: raise ValueError`, then each
\* missing side takes the other side's descriptor (lines 896-901)
NormalizeMedia_NoReuse(feed, stories) ==
    IF feed = NoneMedia /\ stories = NoneMedia
    THEN [raised |-> "ValueError", feed |-> feed, stories |-> stories]
    ELSE [raised |-> "None", feed |-> feed, stories |-> stories]
NormalizeMedia(feed, stories) ==
    IF feed = NoneMedia /\ stories = NoneMedia
    THEN [raised |-> "ValueError", feed |-> feed, stories |-> stories]
    ELSE LET f == IF feed = NoneMedia THEN stories ELSE feed
             st == IF stories = NoneMedia THEN f ELSE stories
         IN [raised |-> "None", feed |-> f, stories |-> st]

\* add_media(media, label): the entries it appends to images and to videos
AddMedia_FeedLabel(media, label, feed, stories) ==
    IF media.type = "image"
    THEN [images |-> <<[hash |-> media.hash, label |-> FEED_LABEL]>>, videos |-> <<>>]
    ELSE [images |-> <<>>,
          videos |-> <<[video_id |-> media.id, label |-> FEED_LABEL,
                        image_hash |-> "None"]>>]
AddMedia(media, label, feed, stories) ==
    IF media.type = "image"
    THEN [images |-> <<[hash |-> media.hash, label |-> label]>>, videos |-> <<>>]
    ELSE IF media.type = "video"
    THEN LET other == IF label = FEED_LABEL THEN stories ELSE feed
             thumb == IF other # NoneMedia /\ other.type = "image"
                      THEN other.hash
                      ELSE media.thumb_hash
         IN [images |-> <<>>,
             videos |-> <<[video_id |-> media.id, label |-> label,
                           image_hash |-> thumb]>>]
    ELSE [images |-> <<>>, videos |-> <<>>]

\* `feed_rule[...] = {'name': FEED_LABEL}` under image_label or video_label
LabelRule_AlwaysImage(placement, media, label) ==
    [placement |-> placement, key |-> "image_label", name |-> label]
LabelRule(placement, media, label) ==
    [placement |-> placement,
     key |-> IF media.type = "image" THEN "image_label" ELSE "video_label",
     name |-> label]

OptOuts == {"image_template", "image_touchups", "text_optimizations",
            "inline_comment", "video_auto_crop"}
\* degrees_of_freedom_spec.creative_features_spec: feature -> enroll_status
CreativeFeaturesSpec == [f \in OptOuts |-> "OPT_OUT"]

EmptyPayload ==
    [images |-> <<>>, videos |-> <<>>, rules |-> <<>>, ad_formats |-> <<>>,
     instagram_user_id |-> "None", creative_features |-> <<>>]

\* _build_creative_payload (meta_api.py:1094): asset_feed_spec.images and
\* .videos (an empty sequence is an absent key), asset_customization_rules,
\* ad_formats, object_story_spec.instagram_user_id and the creative
\* features with their enroll_status.  media['type'] on None raises TypeError.
BuildCreativePayload(feed, stories, ig) ==
    IF feed = NoneMedia \/ stories = NoneMedia
    THEN [raised |-> "TypeError", payload |-> EmptyPayload]
    ELSE LET a == AddMedia(feed, FEED_LABEL, feed, stories)
             b == AddMedia(stories, STORY_LABEL, feed, stories)
             images == a.images \o b.images
             videos == a.videos \o b.videos
             formats == (IF images # <<>> THEN <<"SINGLE_IMAGE">> ELSE <<>>)
                        \o (IF videos # <<>> THEN <<"SINGLE_VIDEO">> ELSE <<>>)
         IN [raised |-> "None",
             payload |->
               [images |-> images,
                videos |-> videos,
                rules |-> <<LabelRule("feed", feed, FEED_LABEL),
                            LabelRule("stories", stories, STORY_LABEL)>>,
                ad_formats |-> IF formats # <<>> THEN formats
                               ELSE <<"SINGLE_IMAGE">>,
                instagram_user_id |-> ig,
                creative_features |-> CreativeFeaturesSpec]]

\* The payload try_complex_creative hands to _post_creative
ComplexPayload(args) ==
    LET n == NormalizeMedia(args.feed, args.stories)
    IN IF n.raised # "None"
       THEN [raised |-> n.raised, payload |-> EmptyPayload]
       ELSE BuildCreativePayload(n.feed, n.stories, args.instagram_user_id)

(* ========== create_creative_with_placements (meta_api.py:881) ========== *)
\* str(ValueError(...)) of line 897
NoMediaError == "Nenhuma mídia fornecida para criar o criativo."

\* What the adcreatives endpoint answers: an id, an error with its message,
\* or neither
CreativeResponses ==
    {[id |-> "cr1", error |-> "None"],
     [id |-> "None", error |-> "Invalid parameter"],
     [id |-> "None", error |-> "Invalid Instagram account"],
     [id |-> "None", error |-> "None"]}
NoResponse == [id |-> "None", error |-> "None"]
\* the answers to the primary request: its rejections carry one message
PrimaryResponses ==
    {r \in CreativeResponses : r.error \in {"None", "Invalid parameter"}}

\* _post_creative: (None, message) on an error answer, else (id, None)
PostCreative_DropsId(resp) ==
    [creative_id |-> "None", error |-> resp.error,
     log |-> IF resp.error # "None" THEN <<LogEntry("error", 0, resp.error)>>
             ELSE <<>>]
PostCreative(resp) ==
    IF resp.error # "None"
    THEN [creative_id |-> "None", error |-> resp.error,
          log |-> <<LogEntry("error", 0, resp.error)>>]
    ELSE [creative_id |-> resp.id, error |-> "None", log |-> <<>>]

\* 'instagram' in (error or '').lower()
CitesInstagram(error) == error = "Invalid Instagram account"

\* What the re-derivation of a thumbnail from source_url does: the download
\* fails, ffmpeg yields no frame, a step raises, or a hash is obtained
DeriveOutcomes == {"download_failed", "no_frame", "error", "ok"}
DerivedThumb == "T2"

\* object_story_spec of the fallback payload: video_data or link_data
NoStory ==
    [data |-> "None", video_id |-> "None", image_hash |-> "None",
     instagram_user_id |-> "None"]

\* where the thumbnail of video_data is taken from: the if/elif chain of
\* lines 1018, 1022, 1026 and its closing else
ThumbSource_UploadFirst(feed, stories) ==
    IF feed.thumb_hash # "None" THEN "upload"
    ELSE IF stories # NoneMedia /\ stories.type = "image" THEN "stories"
    ELSE IF feed.source_url # "None" THEN "source"
    ELSE "none"
ThumbSource(feed, stories) ==
    IF stories # NoneMedia /\ stories.type = "image" THEN "stories"
    ELSE IF feed.thumb_hash # "None" THEN "upload"
    ELSE IF feed.source_url # "None" THEN "source"
    ELSE "none"

\* the thumbnail of video_data and what is logged about it (lines 1018-1048)
SimpleThumb_Silent(feed, stories, derive) ==
    [image_hash |-> "None", log |-> <<>>]
SimpleThumb(feed, stories, derive) ==
    IF ThumbSource(feed, stories) = "stories"
    THEN [image_hash |-> stories.hash,
          log |-> <<LogEntry("info", 0, "thumb_from_stories")>>]
    ELSE IF ThumbSource(feed, stories) = "upload"
    THEN [image_hash |-> feed.thumb_hash,
          log |-> <<LogEntry("info", 0, "thumb_from_upload")>>]
    ELSE IF ThumbSource(feed, stories) = "source"
    THEN LET start == <<LogEntry("info", 0, "thumb_from_source")>>
         IN CASE derive = "download_failed" ->
                   \* _download_file logs the failure and returns False
                   [image_hash |-> "None",
                    log |-> start \o <<LogEntry("error", 0, "download_failed")>>]
              [] derive = "no_frame" ->
                   [image_hash |-> "None",
                    log |-> start \o <<LogEntry("warn", 0, "no_frame")>>]
              [] derive = "error" ->
                   [image_hash |-> "None",
                    log |-> start \o <<LogEntry("warn", 0, "thumb_error")>>]
              [] OTHER ->
                   [image_hash |-> DerivedThumb,
                    log |-> start \o <<LogEntry("info", 0, "thumb_generated")>>]
    ELSE [image_hash |-> "None",
          log |-> <<LogEntry("warn", 0, "no_thumbnail")>>]

\* the payload try_simple_creative builds (lines 1007-1063)
SimpleStory(feed, stories, ig, derive) ==
    IF feed.type = "video"
    THEN LET t == SimpleThumb(feed, stories, derive)
         IN [story |-> [data |-> "video_data", video_id |-> feed.id,
                        image_hash |-> t.image_hash, instagram_user_id |-> ig],
             log |-> t.log]
    ELSE [story |-> [data |-> "link_data", video_id |-> "None",
                     image_hash |-> feed.hash, instagram_user_id |-> ig],
          log |-> <<>>]

\* one creative-creation request: its label, what it carried, the answer
CreativeRequest(label, feedSpec, story, resp) ==
    [label |-> label, asset_feed |-> feedSpec, story |-> story, resp |-> resp]

\* `if not creative_id and instagram_user_id and 'instagram' in ...`
ResendsWithoutIg_Always(creative_id, ig, error) ==
    creative_id = "None" /\ ig # "None"
ResendsWithoutIg(creative_id, ig, error) ==
    creative_id = "None" /\ ig # "None" /\ CitesInstagram(error)

\* try_simple_creative: r2 answers the first request, r3 the re-sent one
TrySimpleCreative(feed, stories, ig, derive, r2, r3) ==
    LET b    == SimpleStory(feed, stories, ig, derive)
        p1   == PostCreative(r2)
        req1 == CreativeRequest("simple+ig", EmptyPayload, b.story, r2)
        log1 == <<LogEntry("info", 0, "simple_start")>> \o b.log \o p1.log
    IN IF ResendsWithoutIg(p1.creative_id, ig, p1.error)
       THEN LET story2 == [b.story EXCEPT !.instagram_user_id = "None"]
                p2     == PostCreative(r3)
            IN [creative_id |-> p2.creative_id, error |-> p2.error,
                requests |-> <<req1, CreativeRequest("simple-ig", EmptyPayload,
                                                     story2, r3)>>,
                log |-> log1 \o <<LogEntry("warn", 0, "removing_instagram")>>
                             \o p2.log]
       ELSE [creative_id |-> p1.creative_id, error |-> p1.error,
             requests |-> <<req1>>, log |-> log1]

\* try_complex_creative: r1 answers its request
TryComplexCreativeRun(feed, stories, ig, r1) ==
    LET p == PostCreative(r1)
    IN [creative_id |-> p.creative_id, error |-> p.error,
        requests |-> <<CreativeRequest("complex",
                          BuildCreativePayload(feed, stories, ig).payload,
                          NoStory, r1)>>,
        log |-> <<LogEntry("info", 0, "complex_start")>> \o p.log]

\* f"Criação de criativo falhou em todas as estratégias. Último erro: {err}"
FatalMessage(err) ==
    CASE err = "Invalid parameter" ->
           "Criação de criativo falhou em todas as estratégias. Último erro: Invalid parameter"
      [] err = "Invalid Instagram account" ->
           "Criação de criativo falhou em todas as estratégias. Último erro: Invalid Instagram account"
      [] OTHER ->
           "Criação de criativo falhou em todas as estratégias. Último erro: None"

\* _do: `if cid: return cid` after the primary strategy
FallbackFollows_Always(creative_id) == TRUE
FallbackFollows(creative_id) == creative_id = "None"

\* _do: how it ends with the last (cid, err) it got
DoResult_ReturnsNone(creative_id, err) ==
    [ok |-> TRUE, val |-> creative_id, err |-> "None", usage |-> 10]
DoResult(creative_id, err) ==
    IF creative_id # "None"
    THEN [ok |-> TRUE, val |-> creative_id, err |-> "None", usage |-> 10]
    ELSE [ok |-> FALSE, val |-> "None", err |-> FatalMessage(err), usage |-> 10]

\* one run of _do; env holds the answers to its requests
DoCreative(feed, stories, ig, derive, env) ==
    LET c == TryComplexCreativeRun(feed, stories, ig, env.complex)
    IN IF ~FallbackFollows(c.creative_id)
       THEN [out |-> DoResult(c.creative_id, c.error),
             requests |-> c.requests, log |-> c.log]
       ELSE LET f == TrySimpleCreative(feed, stories, ig, derive,
                                       env.simple, env.resend)
            IN [out |-> DoResult(f.creative_id, f.error),
                requests |-> c.requests \o f.requests,
                log |-> c.log \o f.log]

\* the answers one run of _do can consume, unused ones left at NoResponse
RunEnvs(ig) ==
    {e \in [complex : PrimaryResponses, simple : CreativeResponses,
            resend : CreativeResponses] :
        LET p1 == PostCreative(e.simple)
        IN /\ e.complex.id # "None" => e.simple = NoResponse
           /\ (\/ e.complex.id # "None"
               \/ ~ResendsWithoutIg(p1.creative_id, ig, p1.error))
                  => e.resend = NoResponse}

RECURSIVE InterleaveLogs(_, _, _, _)
\* per attempt: what _do logged, then what _with_retry logged about it
InterleaveLogs(runs, rlog, k, n) ==
    IF k > n THEN <<>>
    ELSE runs[k].log
         \o (IF k <= Len(rlog) THEN <<rlog[k]>> ELSE <<>>)
         \o InterleaveLogs(runs, rlog, k + 1, n)

\* create_creative_with_placements(feed_media, stories_media, ...,
\* instagram_user_id): envs[k] answers the k-th run of _do
CreateCreativeRun(args, derive, envs) ==
    LET n == NormalizeMedia(args.feed, args.stories)
    IN IF n.raised # "None"
       THEN [done |-> TRUE, raised |-> NoMediaError, value |-> "None",
             derive |-> derive, runs |-> <<>>, sleeps |-> <<>>,
             log |-> <<LogEntry("info", 0, "creating")>>]
       ELSE LET runs == [k \in Attempts |->
                           DoCreative(n.feed, n.stories, args.instagram_user_id,
                                      derive, envs[k])]
                r == WithRetry([k \in Attempts |-> runs[k].out])
            IN [done |-> TRUE,
                raised |-> IF r.raised THEN r.error ELSE "None",
                value |-> r.value,
                derive |-> derive,
                runs |-> [k \in 1 .. r.invocations |->
                            [requests |-> runs[k].requests, out |-> runs[k].out]],
                sleeps |-> r.sleeps,
                log |-> <<LogEntry("info", 0, "creating")>>
                        \o InterleaveLogs(runs, r.log, 1, r.invocations)
                        \o (IF r.raised THEN <<>>
                            ELSE <<LogEntry("info", 0, "created")>>)]

(* ================== _post_creative (meta_api.py:913) =================== *)
\* The top-level keys of the dictionaries handed to _post_creative: the
\* primary payload keeps its images and videos inside asset_feed_spec
\* (lines 1166-1210), the fallback payload has object_story_spec only
ComplexKeys == {"asset_feed_spec", "object_story_spec", "degrees_of_freedom_spec"}
SimpleKeys == {"object_story_spec"}
PayloadDict(keys, feedSpec, story) ==
    [keys |-> keys, asset_feed |-> feedSpec, story |-> story]

\* payload_dict['videos'] and payload_dict['images']: no payload the
\* uploader builds has these keys at the top level
TopLevel(pd, key) == <<>>

\* `if 'videos' in payload_dict: ... elif 'object_story_spec' in
\* payload_dict: vd = ...get('video_data', {})` (lines 927-932)
PolledVideos(pd) ==
    IF "videos" \in pd.keys
    THEN TopLevel(pd, "videos")
    ELSE IF "object_story_spec" \in pd.keys
            /\ pd.story.data = "video_data" /\ pd.story.video_id # "None"
    THEN <<pd.story.video_id>>
    ELSE <<>>

\* `if 'images' in payload_dict: ... elif 'object_story_spec' in
\* payload_dict:` the image_hash of link_data, then that of video_data
\* (lines 935-943)
PolledImages(pd) ==
    IF "images" \in pd.keys
    THEN TopLevel(pd, "images")
    ELSE IF "object_story_spec" \in pd.keys /\ pd.story.image_hash # "None"
    THEN <<pd.story.image_hash>>
    ELSE <<>>

\* what a poller returned for an asset, and why
PollVerdicts == {"ready", "failed", "timeout"}
Polled(kind, ref, verdict) ==
    [kind |-> kind, ref |-> ref, verdict |-> verdict,
     ret |-> verdict = "ready"]

\* `for vid in video_ids: self.wait_for_video_ready(vid)` and the same for
\* the images: the values returned are dropped and requests.post follows
SendsAfterPolls_OnlyWhenReady(polled) ==
    \A i \in 1 .. Len(polled) : polled[i].ret
SendsAfterPolls(polled) == TRUE

\* _post_creative(payload_dict, label): verdicts[i] is what the poller of
\* the i-th asset returns, resp the answer to the POST
PostCreativeCall(label, pd, verdicts, resp) ==
    LET vids   == PolledVideos(pd)
        imgs   == PolledImages(pd)
        polled == [i \in 1 .. Len(vids) |-> Polled("video", vids[i], verdicts[i])]
                  \o [i \in 1 .. Len(imgs) |->
                        Polled("image", imgs[i], verdicts[Len(vids) + i])]
        sent   == SendsAfterPolls(polled)
        out    == IF sent THEN PostCreative(resp) ELSE PostCreative(NoResponse)
    IN [request |-> CreativeRequest(label, pd.asset_feed, pd.story,
                                    IF sent THEN resp ELSE NoResponse),
        polled |-> polled, sent |-> sent,
        creative_id |-> out.creative_id, error |-> out.error]

\* at most two assets are polled per call
VerdictSeqs == [1 .. 2 -> PollVerdicts]

(* ==================== upload_media (meta_api.py:727) =================== *)
\* The local files of the model and their extensions (os.path.splitext)
FilePaths == {"f.jpg", "f.mp4", "s.jpg"}
ExtOf(path) == IF path = "f.mp4" THEN ".mp4" ELSE ".jpg"
VIDEO_EXTS == {".mp4", ".mov", ".avi", ".mkv", ".webm", ".m4v", ".gif"}

\* What the ffmpeg run of extract_video_thumbnail does
ToolOutcomes == {"ok", "missing", "timeout", "nonzero"}

\* Invocations of a wrapped function in the batch view: one error message,
\* usage left low
CallOutcomes == {o \in ThunkOutcomes : o.usage = 10 /\ o.err \in {"None", "e1"}}

\* some invocation of a _with_retry run over outs failed
FailedCalls(outs, r) == \E k \in 1 .. r.invocations : ~outs[k].ok

\* the except clauses of extract_video_thumbnail: FileNotFoundError,
\* subprocess.TimeoutExpired, then Exception, each logging a warning and
\* returning None
Handled_ToolErrorsOnly(exc) == exc \in {"FileNotFoundError", "TimeoutExpired"}
Handled(exc) == exc \in {"FileNotFoundError", "TimeoutExpired", "Exception"}

\* the try block of extract_video_thumbnail: what it returns or raises, what
\* it logs, and the frame file ("none": no frame was extracted, "deleted":
\* extracted and unlinked by the finally clause)
ExtractBody(tool, outs) ==
    CASE tool = "missing" ->
           [exc |-> "FileNotFoundError", thumb_hash |-> "None", log |-> <<>>,
            frame |-> "none", called |-> FALSE, failed |-> FALSE]
      [] tool = "timeout" ->
           [exc |-> "TimeoutExpired", thumb_hash |-> "None", log |-> <<>>,
            frame |-> "none", called |-> FALSE, failed |-> FALSE]
      [] tool = "nonzero" ->
           [exc |-> "None", thumb_hash |-> "None",
            log |-> <<LogEntry("warn", 0, "ffmpeg_failed")>>,
            frame |-> "none", called |-> FALSE, failed |-> FALSE]
      [] OTHER ->
           LET r == WithRetry(outs)
           IN [exc |-> IF r.raised THEN "Exception" ELSE "None",
               thumb_hash |-> IF r.raised THEN "None" ELSE r.value,
               log |-> <<LogEntry("info", 0, "thumb_extracted")>> \o r.log,
               frame |-> "deleted",
               called |-> TRUE, failed |-> FailedCalls(outs, r)]

\* the warning each except clause logs
HandlerLog(exc) ==
    CASE exc = "FileNotFoundError" -> <<LogEntry("warn", 0, "ffmpeg_missing")>>
      [] exc = "TimeoutExpired" -> <<LogEntry("warn", 0, "ffmpeg_timeout")>>
      [] OTHER -> <<LogEntry("warn", 0, "thumb_error")>>

\* extract_video_thumbnail (meta_api.py:612): the hash of the ingested
\* frame, or None when the tool fails or upload_image raises
ExtractVideoThumbnail(tool, outs) ==
    LET b == ExtractBody(tool, outs)
    IN IF b.exc = "None"
       THEN [thumb_hash |-> b.thumb_hash, called |-> b.called,
             failed |-> b.failed, raised |-> "None", log |-> b.log,
             frame |-> b.frame]
       ELSE IF Handled(b.exc)
       THEN [thumb_hash |-> "None", called |-> b.called, failed |-> b.failed,
             raised |-> "None", log |-> b.log \o HandlerLog(b.exc),
             frame |-> b.frame]
       ELSE [thumb_hash |-> "None", called |-> b.called, failed |-> b.failed,
             raised |-> b.exc, log |-> b.log, frame |-> b.frame]

\* upload_media(file_path): the local-file branch (lines 773-786)
UploadMediaLocal(path, tool, thumbOuts, outs) ==
    LET r == WithRetry(outs)
    IN IF ExtOf(path) \in VIDEO_EXTS
       THEN LET t == ExtractVideoThumbnail(tool, thumbOuts)
            IN IF t.raised # "None"
               THEN [raised |-> t.raised, media |-> NoneMedia,
                     called |-> t.called, failed |-> t.failed]
               ELSE [raised |-> IF r.raised THEN r.error ELSE "None",
                     media |-> IF r.raised THEN NoneMedia
                               ELSE VideoMedia(r.value, t.thumb_hash),
                     called |-> TRUE,
                     failed |-> t.failed \/ FailedCalls(outs, r)]
       ELSE [raised |-> IF r.raised THEN r.error ELSE "None",
             media |-> IF r.raised THEN NoneMedia ELSE ImageMedia(r.value),
             called |-> TRUE,
             failed |-> FailedCalls(outs, r)]

\* what extract_video_thumbnail yields when it is not called
NoExtract ==
    [thumb_hash |-> "None", called |-> FALSE, failed |-> FALSE,
     raised |-> "None", log |-> <<>>, frame |-> "none"]
NoUpload ==
    [done |-> FALSE, path |-> "None", tool |-> "ok", thumbOuts |-> NoThunk,
     outs |-> NoThunk, extract |-> NoExtract, raised |-> "None",
     media |-> NoneMedia, ingested |-> FALSE]

(* ====================== create_ad (meta_api.py:1215) =================== *)
\* post_data of the POST /ads request (lines 1229-1240)
AdPostData_CallerStatus(adset_id, creative_id, ad_name, pixel_id) ==
    [name |-> ad_name, adset_id |-> adset_id, creative |-> creative_id,
     status |-> IF pixel_id # "None" THEN "ACTIVE" ELSE "PAUSED",
     tracking_specs |-> pixel_id]
AdPostData(adset_id, creative_id, ad_name, pixel_id) ==
    [name |-> ad_name, adset_id |-> adset_id, creative |-> creative_id,
     status |-> "PAUSED", tracking_specs |-> pixel_id]

\* The answers of the ads endpoint: an id, an error, or neither
AdResponses ==
    {[id |-> "123", error |-> "None"], [id |-> "None", error |-> "e1"],
     [id |-> "None", error |-> "None"]}

\* create_ad._do after the POST (lines 1251-1266)
AdDo(resp) ==
    IF resp.error # "None"
    THEN [ok |-> FALSE, val |-> "None", err |-> "Ad falhou: e1", usage |-> 10]
    ELSE IF resp.id = "None"
    THEN [ok |-> FALSE, val |-> "None", err |-> "Ad criado mas sem ID", usage |-> 10]
    ELSE [ok |-> TRUE, val |-> resp.id, err |-> "None", usage |-> 10]

\* create_ad: one request per invocation of _do
CreateAdRun(adset_id, creative_id, ad_name, pixel_id, resps) ==
    LET outs == [k \in Attempts |-> AdDo(resps[k])]
        r == WithRetry(outs)
    IN [raised |-> IF r.raised THEN r.error ELSE "None",
        ad_id |-> r.value,
        requests |-> {AdPostData(adset_id, creative_id, ad_name, pixel_id)
                      : k \in 1 .. r.invocations},
        called |-> TRUE,
        failed |-> FailedCalls(outs, r)]

(* ==================== process_queue (meta_api.py:1297) ================= *)
\* queue_items entries: ad_name may be absent, either path may be absent
QueueItems ==
    {[ad_name |-> "A", feed_file_path |-> "f.jpg", stories_file_path |-> "None"],
     [ad_name |-> "B", feed_file_path |-> "f.mp4", stories_file_path |-> "s.jpg"],
     [ad_name |-> "None", feed_file_path |-> "None", stories_file_path |-> "None"]}

Batches == UNION {[1 .. n -> QueueItems] : n \in 0 .. MaxItems}
Configs == [pixel_id : {"None", "px1"}]
TargetAdSet == "adset1"
\* the adset_id a caller hands to process_queue: an ad set, or None
AdSetArgs == {"None", TargetAdSet}

\* f'Ad {i}'
DefaultAdName(i) ==
    CASE i = 1 -> "Ad 1" [] i = 2 -> "Ad 2" [] i = 3 -> "Ad 3" [] i = 4 -> "Ad 4"
      [] OTHER -> "Ad n"
\* item.get('ad_name', f'Ad {i}')
AdNameOf(item, i) ==
    IF item.ad_name = "None" THEN DefaultAdName(i) ELSE item.ad_name

NoConfig == [pixel_id |-> "None"]
NoLocals ==
    [ad_name |-> "None", feed_media |-> NoneMedia, stories_media |-> NoneMedia,
     creative_id |-> "None", exc |-> "None", trace |-> <<>>]
NoSummary == [done |-> FALSE, ok |-> 0, fail |-> 0]
NoHist == [called |-> FALSE, failed |-> FALSE, ad_id |-> "None", raised |-> "None"]

\* the records appended to results (lines 1347-1352 and 1356-1361)
SuccessRecord_NoId(ad_name, ad_id) ==
    [ad_name |-> ad_name, success |-> TRUE, ad_id |-> "None", error |-> "None"]
SuccessRecord(ad_name, ad_id) ==
    [ad_name |-> ad_name, success |-> TRUE, ad_id |-> ad_id, error |-> "None"]
FailureRecord(ad_name, e) ==
    [ad_name |-> ad_name, success |-> FALSE, ad_id |-> "None", error |-> e]

\* results.append(...) in the except block
AppendFailure_Dropped(res, rec) == res
AppendFailure(res, rec) == Append(res, rec)

\* where the loop goes once the except block has run
AfterExcept_Abort(i, total) == "summary"
AfterExcept(i, total) == IF i < total THEN "begin" ELSE "summary"

\* One step of the try block and the statement after it: the step's event,
\* then self.smart_delay() when the step returned (an exception leaves the
\* try block before the delay is reached)
StepEvent(step, ok) == [ev |-> step, ok |-> ok]
SmartDelay == [ev |-> "smart_delay", ok |-> TRUE]
ThenDelay_EvenAfterFailure(step, ok) == <<StepEvent(step, ok), SmartDelay>>
ThenDelay(step, ok) ==
    IF ok THEN <<StepEvent(step, ok), SmartDelay>> ELSE <<StepEvent(step, ok)>>

\* `if i < total: self.smart_delay()`
DelayBetween_AfterLast(i, total) == TRUE
DelayBetween(i, total) == i < total

(* ================= run_upload_task (app.py:464) ======================== *)
\* The parameters MetaUploader.__init__ accepts (meta_api.py:80) and the
\* keyword the worker passes besides the four positional ones (app.py:495)
CtorParams == {"account_id", "access_token", "app_id", "app_secret"}
WorkerCtorKwargs == {"callback"}
\* MetaUploader(..., **kwargs): an unknown keyword raises TypeError
MetaUploaderInit(kwargs) ==
    IF kwargs \subseteq CtorParams THEN "ok" ELSE "TypeError"

\* The methods the worker calls on the uploader that MetaUploader defines
UploaderMethods ==
    {"upload_media", "smart_delay", "duplicate_adset",
     "create_creative_with_placements", "create_ad", "set_callback", "_log"}
\* uploader.<name>(): AttributeError when the class has no such method
MethodLookup(name) == IF name \in UploaderMethods THEN "ok" ELSE "AttributeError"

\* The request: whether a feed and a stories medium (file or remote URL)
\* were sent, and the estrategia and destino_conjunto form fields
UploadForms ==
    [feed : BOOLEAN, stories : BOOLEAN,
     estrategia : {"None", "garimpo", "escala"},
     destino : {"None", "duplicar", "existente"}]
\* the requests made while a batch runs: no duplication asked for
Forms == {f \in UploadForms : f.estrategia = "None" /\ f.destino = "None"
                              /\ f.feed = f.stories}
\* `if not feed_path and not stories_path and not url_feed_remote and ...`
HasMedia_Unchecked(f) == TRUE
HasMedia(f) == f.feed \/ f.stories
\* `if estrategia == 'garimpo' or destino == 'duplicar'`
Duplicates(f) == f.estrategia = "garimpo" \/ f.destino = "duplicar"

\* the messages put on log_queue; Sentinel is the closing None
Terminal(success, ad_id, error) ==
    [type |-> "result", success |-> success, ad_id |-> ad_id, error |-> error,
     msg |-> "None"]
LogMsg(msg) ==
    [type |-> "log", success |-> FALSE, ad_id |-> "None", error |-> "None",
     msg |-> msg]
Sentinel ==
    [type |-> "end", success |-> FALSE, ad_id |-> "None", error |-> "None",
     msg |-> "None"]

\* The steps of the try block after the no-media check, in program order
RemoteSteps == {"feed", "stories", "duplicate", "creative", "ad"}
WorkerSteps(f) ==
    <<"construct", "network_info">>
    \o (IF f.feed THEN <<"feed">> ELSE <<>>)
    \o (IF f.stories THEN <<"stories">> ELSE <<>>)
    \o (IF Duplicates(f) THEN <<"duplicate">> ELSE <<>>)
    \o <<"creative", "ad">>
\* the answers of the remote side to the worker's remote steps
WorkerEnvs == [RemoteSteps -> {"ok", "e1"}]

\* what a step does: "ok", or the message of the exception it raises
StepOutcome(step, env) ==
    CASE step = "construct" -> MetaUploaderInit(WorkerCtorKwargs)
      [] step = "network_info" -> MethodLookup("_log_network_info")
      [] OTHER -> env[step]

\* an exception leaves the try block: the next statement runs only when
\* the previous one returned
Continues_AfterFailure(outcome) == TRUE
Continues(outcome) == outcome = "ok"

RECURSIVE RunSteps(_, _, _, _)
RunSteps(steps, k, env, acc) ==
    IF k > Len(steps) THEN acc
    ELSE LET o    == StepOutcome(steps[k], env)
             acc1 == Append(acc, [step |-> steps[k], outcome |-> o])
         IN IF Continues(o) THEN RunSteps(steps, k + 1, env, acc1) ELSE acc1

\* the except block: log_queue.put({'success': False, 'error': str(e)})
ExceptPuts_Nothing(e) == <<>>
ExceptPuts(e) == <<Terminal(FALSE, "None", e)>>

\* the callback installed on the uploader puts one log message per _log
\* call; a step logs once the uploader exists
StepLogs(steps) ==
    LET built == \E i \in 1 .. Len(steps) :
                    steps[i].step = "construct" /\ steps[i].outcome = "ok"
    IN IF built
       THEN [i \in 1 .. (Len(steps) - 1) |-> LogMsg(steps[i + 1].step)]
       ELSE <<>>

\* the finally block: the cleanup swallows its own errors (bare except),
\* then log_queue.put(None)
FinallyPuts_Nothing == <<>>
FinallyPuts == <<Sentinel>>

NoRun == [steps |-> <<>>, ad_adset |-> "None", copies |-> 0, trace |-> <<>>]

\* the steps of the worker that are followed by uploader.smart_delay()
\* (app.py:506-537), and the events of a run of the try block
DelayedSteps == {"feed", "stories", "duplicate", "creative"}
RECURSIVE WorkerTrace(_, _)
WorkerTrace(st, k) ==
    IF k > Len(st) THEN <<>>
    ELSE (IF st[k].step \in DelayedSteps
          THEN ThenDelay(st[k].step, st[k].outcome = "ok")
          ELSE <<StepEvent(st[k].step, st[k].outcome = "ok")>>)
         \o WorkerTrace(st, k + 1)

\* the try and except blocks of run_upload_task: the steps executed, the
\* messages put on the queue, the ad set handed to create_ad
UploadTaskRun(f, env) ==
    IF ~HasMedia(f)
    THEN [run |-> NoRun,
          puts |-> <<Terminal(FALSE, "None", "Nenhuma mídia enviada")>>]
    ELSE LET st     == RunSteps(WorkerSteps(f), 1, env, <<>>)
             bad    == {i \in 1 .. Len(st) : st[i].outcome # "ok"}
             ran(x) == \E i \in 1 .. Len(st) : st[i].step = x
             copied == \E i \in 1 .. Len(st) :
                          st[i].step = "duplicate" /\ st[i].outcome = "ok"
             adset  == IF copied THEN "copy1" ELSE TargetAdSet
         IN [run |-> [steps |-> st,
                      ad_adset |-> IF ran("ad") THEN adset ELSE "None",
                      copies |-> IF ran("duplicate") THEN 1 ELSE 0,
                      trace |-> WorkerTrace(st, 1)],
             puts |-> StepLogs(st)
                      \o (IF bad # {}
                          THEN ExceptPuts(st[CHOOSE i \in bad :
                                               \A j \in bad : i <= j].outcome)
                          ELSE <<Terminal(TRUE, "123", "None")>>)]

(* ================ get_identity_data (meta_api.py:299) ================== *)
\* what get_pages and get_pixels return: a list, empty when the call failed
PagesAnswers == {<<>>, <<"page1">>, <<"page2">>, <<"page1", "page2">>}
PixelsAnswers == {<<>>, <<"pixel1">>, <<"pixel2">>, <<"pixel1", "pixel2">>}
NotFetched == <<"not fetched">>
NoReturn == [pages |-> NotFetched, instagrams |-> NotFetched, pixels |-> NotFetched]

\* pages_result = [] and pixels_result = [] before the pool is entered
NoIdentity ==
    [mpc |-> "start", ppc |-> "idle", xpc |-> "idle",
     pages_fetched |-> NotFetched, pixels_fetched |-> NotFetched,
     pages_result |-> <<>>, pixels_result |-> <<>>,
     ig_pages_data |-> NotFetched, ret |-> NoReturn]

\* leaving `with ThreadPoolExecutor(...) as executor:` calls
\* executor.shutdown(wait=True), which returns once both tasks have ended
Joined_NoWait(i) == TRUE
Joined(i) == i.ppc = "done" /\ i.xpc = "done"

(* ============ wait_for_video_ready (meta_api.py:790) and =============== *)
(* ============ wait_for_image_ready (meta_api.py:834) ================== *)
\* the default timeout and interval of each poller, in seconds
VIDEO_TIMEOUT == 120
VIDEO_INTERVAL == 10
IMAGE_TIMEOUT == 60
IMAGE_INTERVAL == 5
AssetKinds == {"video", "image"}
TimeoutOf(kind) == IF kind = "video" THEN VIDEO_TIMEOUT ELSE IMAGE_TIMEOUT
IntervalOf(kind) == IF kind = "video" THEN VIDEO_INTERVAL ELSE IMAGE_INTERVAL

\* What one poll of the status endpoint observes:
\*   "ready"       video_status 'ready' / image status 'ACTIVE'
\*   "failed"      the asset reports a state it never leaves and that is not
\*                 ready (video_status 'error'; an image status such as
\*                 'DELETED')
\*   "processing"  any other status
\*   "not_indexed" the image list of the answer is empty
\*   "api_error"   the answer carries an 'error' object
\*   "exception"   requests.get or .json() raised
Observations(kind) ==
    IF kind = "video"
    THEN {"ready", "failed", "processing", "api_error", "exception"}
    ELSE {"ready", "failed", "processing", "not_indexed", "api_error",
          "exception"}

\* the seconds one poll of the status endpoint takes
PollDurations(kind) == {0, IntervalOf(kind)}

\* the statuses on which each loop returns at once: True on the first,
\* False on the second
ReturnsTrueOn(kind) == {"ready"}
ReturnsFalseOn(kind) == IF kind = "video" THEN {"failed"} ELSE {}

NoPoll ==
    [kind |-> "video", pc |-> "idle", elapsed |-> 0, polls |-> 0, waits |-> 0,
     last |-> "None", ready_seen |-> FALSE, failed_seen |-> FALSE,
     after_failed |-> 0, ret |-> "None", requested |-> FALSE]

\* `while time.time() - start_time < timeout`
LoopGoesOn(p) == p.elapsed < TimeoutOf(p.kind)

\* one turn of the loop body: a poll that took d seconds and observed obs,
\* then a return or time.sleep(interval)
PollTurn(p, obs, d) ==
    LET seen == [p EXCEPT !.polls = @ + 1,
                          !.elapsed = @ + d,
                          !.last = obs,
                          !.ready_seen = @ \/ obs = "ready",
                          !.failed_seen = @ \/ obs = "failed",
                          !.after_failed = IF p.failed_seen THEN @ + 1 ELSE @]
    IN IF obs \in ReturnsTrueOn(p.kind)
       THEN [seen EXCEPT !.pc = "returned", !.ret = "True"]
       ELSE IF obs \in ReturnsFalseOn(p.kind)
       THEN [seen EXCEPT !.pc = "returned", !.ret = "False"]
       ELSE [seen EXCEPT !.waits = @ + 1,
                         !.elapsed = @ + IntervalOf(p.kind),
                         !.after_failed = IF seen.failed_seen THEN @ + 1 ELSE @]

\* the loop condition failed: the timeout line is logged, False returned
PollGivesUp(p) == [p EXCEPT !.pc = "returned", !.ret = "False"]

(* ================== duplicate_adset (meta_api.py:1274) ================= *)
\* rename_options of a copy request: none (absent or {}), a timestamp
\* suffix, or a suffix made of the supplied name
NoRename == [kind |-> "none", name |-> "None"]
TimestampSuffix == [kind |-> "timestamp_suffix", name |-> "None"]
NameSuffix(name) == [kind |-> "name_suffix", name |-> name]

\* `'rename_options': {...} if not new_name else {}`
UploaderRename(new_name) ==
    IF new_name = "None" THEN TimestampSuffix ELSE NoRename

\* the params of source.create_copy in MetaUploader.duplicate_adset
UploaderCopyRequest(source, new_name) ==
    [source |-> source, deep_copy |-> FALSE, status_option |-> "PAUSED",
     rename |-> UploaderRename(new_name)]

\* MetaUploader.duplicate_adset(source_adset_id, new_name)
DuplicateAdset(via, source, new_name, outs) ==
    LET r == WithRetry(outs)
    IN [via |-> via, source |-> source, new_name |-> new_name,
        copies |-> [k \in 1 .. r.invocations |->
                      UploaderCopyRequest(source, new_name)],
        updates |-> <<>>,
        raised |-> IF r.raised THEN r.error ELSE "None",
        adset_id |-> r.value]

\* duplicate_adset_route of modules/creatives.py: the params of the copies
\* request, then `novo.api_update(params={'status': 'ACTIVE'})`
RouteCopyRequest(source, new_name) ==
    [source |-> source, deep_copy |-> FALSE, status_option |-> "None",
     rename |-> IF new_name = "None" THEN NoRename ELSE NameSuffix(new_name)]
RouteDuplicate(source, new_name, copy) ==
    IF copy.ok
    THEN [via |-> "creatives_route", source |-> source, new_name |-> new_name,
          copies |-> <<RouteCopyRequest(source, new_name)>>,
          updates |-> <<[adset |-> copy.val, status |-> "ACTIVE"]>>,
          raised |-> "None", adset_id |-> copy.val]
    ELSE [via |-> "creatives_route", source |-> source, new_name |-> new_name,
          copies |-> <<RouteCopyRequest(source, new_name)>>,
          updates |-> <<>>,
          raised |-> copy.err, adset_id |-> "None"]

\* the ad sets and names a duplication is asked for
SourceAdSets == {"adset1", "adset2"}
NewNames == {"None", "n1"}

(* ============== _normalize_drive_link (meta_api.py:417) ================ *)
\* The names the import block of meta_api.py binds at module level
ModuleGlobals ==
    {"time", "json", "random", "os", "tempfile", "requests", "re",
     "FacebookAdsApi", "AdAccount", "AdImage", "AdVideo", "AdCreative", "Ad",
     "AdSet", "Campaign", "User", "AdsPixel"}
\* evaluating a global name: bound, or NameError
Lookup(name) == IF name \in ModuleGlobals THEN "ok" ELSE "NameError"

\* A link by the parts the function inspects: the host, the path (the
\* share page /file/d/ID/..., /open, or /uc with export=download), the ID
\* after /file/d/ ("" when nothing stands between the slashes), whether the
\* text 'id=' occurs in it, and the value of the query parameter id.
\* EmptyLink is None or ''.
FileIds == {"ID1", "ID2"}
DRIVE_HOST == "drive.google.com"
EmptyLink ==
    [host |-> "", path |-> "", path_id |-> "None", id_eq |-> FALSE, query_id |-> "None"]
Queries ==
    {[id_eq |-> FALSE, query_id |-> "None"], [id_eq |-> TRUE, query_id |-> "None"]}
    \cup {[id_eq |-> TRUE, query_id |-> f] : f \in FileIds}
Links ==
    {EmptyLink}
    \cup {[host |-> h, path |-> pp.path, path_id |-> pp.path_id,
           id_eq |-> q.id_eq, query_id |-> q.query_id] :
            h \in {DRIVE_HOST, "example.com"},
            pp \in {[path |-> "file_d", path_id |-> f] : f \in FileIds \cup {""}}
                   \cup {[path |-> "open", path_id |-> "None"],
                         [path |-> "uc", path_id |-> "None"]},
            q \in Queries}

\* f"https://drive.google.com/uc?export=download&id={file_id}"
DirectDownload(file_id) ==
    [host |-> DRIVE_HOST, path |-> "uc", path_id |-> "None", id_eq |-> TRUE,
     query_id |-> file_id]

NormReturn(l) == [raised |-> "None", value |-> l]
NormRaise(e) == [raised |-> e, value |-> EmptyLink]

NormalizeDriveLink(l) ==
    IF l = EmptyLink \/ l.host # DRIVE_HOST
    THEN NormReturn(l)
    ELSE IF l.path = "file_d"
    THEN \* link.split('/file/d/')[1].split('/')[0]
         IF l.path_id # "" THEN NormReturn(DirectDownload(l.path_id))
         ELSE NormReturn(l)
    ELSE IF l.id_eq
    THEN \* urllib.parse.urlparse(link), parse_qs(...).get('id', [None])[0]
         IF Lookup("urllib") # "ok" THEN NormRaise(Lookup("urllib"))
         ELSE IF l.query_id # "None" THEN NormReturn(DirectDownload(l.query_id))
         ELSE NormReturn(l)
    ELSE NormReturn(l)

(* ==================== _download_file (meta_api.py:439) ================= *)
\* What a response body saved to dest_path looks like to the function:
\* `small`: os.path.getsize < 200000; `html`: b'<html' or b'<!doctype'
\* somewhere in the file; `html_head`: in its first 500 bytes; `confirm`:
\* the group re.search(r'confirm=([0-9A-Za-z_-]+)') finds, or None
Body(small, html, html_head, confirm) ==
    [small |-> small, html |-> html, html_head |-> html_head, confirm |-> confirm]
Binary == Body(FALSE, FALSE, FALSE, "None")
SmallBinary == Body(TRUE, FALSE, FALSE, "None")
Interstitial(confirm) == Body(TRUE, TRUE, TRUE, confirm)
LateMarkup == Body(TRUE, TRUE, FALSE, "None")
LargeHtml == Body(FALSE, TRUE, TRUE, "None")
Bodies ==
    {Binary, SmallBinary, Interstitial("None"), Interstitial("tk1"),
     LateMarkup, LargeHtml}

\* A response of session.get: it raises in the call ("get"), or while
\* iter_content is being written to the opened file ("stream"), or it
\* delivers its body; `cookie` is the value of a download_warning cookie
Response(raises, cookie, body) ==
    [raises |-> raises, cookie |-> cookie, body |-> body]
Responses ==
    {Response("get", "None", Binary), Response("stream", "None", Binary)}
    \cup {Response("no", "None", b) : b \in Bodies}
FirstResponses ==
    Responses \cup {Response("no", "ck1", b) : b \in Bodies}

\* `if file_size < 200000:` ... `if b'<html' in content.lower() or ...`
\* over the whole content (lines 469-475)
IsHtml(body) == body.small /\ body.html
\* the validation after the re-request reads header = f.read(500)
\* (lines 505-509)
StillHtml(body) == body.small /\ body.html_head

\* params={'confirm': confirm_token} when the page holds a token, else
\* params={'confirm': 't'} (lines 485-498)
ConfirmParam_AlwaysGeneric(confirm) == "t"
ConfirmParam(confirm) == IF confirm # "None" THEN confirm ELSE "t"

\* os.unlink(dest_path) on the two failure paths (lines 512, 520-521)
Unlinked_Keeps(exists) == exists
Unlinked(exists) == FALSE

\* the outcome of a call: the return, whether dest_path exists afterwards,
\* the confirm parameter of each GET ("None": no parameter), the bodies
\* written to dest_path in order, the log
DownloadResult(ret, exists, gets, saved, log) ==
    [ret |-> ret, exists |-> exists, gets |-> gets, saved |-> saved, log |-> log]
\* the except clause: log, unlink if the file exists, return False
DownloadExcept(exists, gets, saved, log) ==
    DownloadResult(FALSE, Unlinked(exists), gets, saved,
                   Append(log, LogEntry("error", 0, "download_error")))

\* the part of the try block after the first save (lines 468-517)
DownloadValidate(second, gets, saved, log) ==
    LET body == saved[Len(saved)]
    IN IF ~IsHtml(body)
       THEN DownloadResult(TRUE, TRUE, gets, saved,
                           Append(log, LogEntry("info", 0, "download_done")))
       ELSE LET gets2 == Append(gets, ConfirmParam(body.confirm))
                log2  == log \o <<LogEntry("warn", 0, "drive_html"),
                                  LogEntry("info", 0, "confirm")>>
            IN IF second.raises # "no"
               THEN DownloadExcept(TRUE, gets2, saved, log2)
               ELSE IF StillHtml(second.body)
               THEN DownloadResult(FALSE, Unlinked(TRUE), gets2,
                                   Append(saved, second.body),
                                   log2 \o <<LogEntry("error", 0, "still_html"),
                                             LogEntry("error", 0, "check_permission")>>)
               ELSE DownloadResult(TRUE, TRUE, gets2, Append(saved, second.body),
                                   Append(log2, LogEntry("info", 0, "download_done")))

\* _download_file(url, dest_path): `existed` says whether a file was at
\* dest_path before the call, `first` is the answer to the plain GET,
\* `cookied` the answer to the GET confirmed with the cookie token,
\* `second` the answer to the GET sent after an HTML page was saved
DownloadFile(existed, first, cookied, second) ==
    IF first.raises = "get"
    THEN DownloadExcept(existed, <<"None">>, <<>>, <<>>)
    ELSE LET token == first.cookie
             gets  == IF token # "None" THEN <<"None", token>> ELSE <<"None">>
             log   == IF token # "None"
                      THEN <<LogEntry("info", 0, "cookie_token")>> ELSE <<>>
             resp  == IF token # "None" THEN cookied ELSE first
         IN IF resp.raises = "get" THEN DownloadExcept(existed, gets, <<>>, log)
            ELSE IF resp.raises = "stream" THEN DownloadExcept(TRUE, gets, <<>>, log)
            ELSE DownloadValidate(second, gets, <<resp.body>>, log)

NoDownload ==
    [done |-> FALSE, existed |-> FALSE, first |-> Response("no", "None", Binary),
     cookied |-> Response("no", "None", Binary),
     second |-> Response("no", "None", Binary),
     res |-> DownloadResult(FALSE, FALSE, <<>>, <<>>, <<>>)]
(* ========= upload_media(url=...) (meta_api.py:732-770), ================ *)
(* ========= upload_video_url (573) and upload_image_url (525) =========== *)
\* str.lower() on the letters the messages of the model hold
LowerChar(c) ==
    CASE c = "C" -> "c" [] c = "F" -> "f" [] c = "I" -> "i" [] c = "N" -> "n"
      [] c = "P" -> "p" [] c = "U" -> "u" [] c = "M" -> "m" [] c = "V" -> "v"
      [] OTHER -> c
RECURSIVE Lower(_)
Lower(str) ==
    IF Len(str) = 0 THEN ""
    ELSE LowerChar(SubSeq(str, 1, 1)) \o Lower(SubSeq(str, 2, Len(str)))
\* `k in str`: k occurs in str
In(k, str) ==
    \E i \in 1 .. (Len(str) - Len(k) + 1) : SubSeq(str, i, i + Len(k) - 1) = k

\* any(k in msg.lower() for k in ['problem', 'download', 'failed',
\* 'could not', 'capability']) (lines 539 and 586)
FETCH_KEYWORDS == {"problem", "download", "failed", "could not", "capability"}
CannotFetch_Any(msg) == TRUE
CannotFetch(msg) == \E k \in FETCH_KEYWORDS : In(k, Lower(msg))

\* 'image' in str(e).lower() or 'not a video' in str(e).lower() (line 764)
SuggestsImage_Any(e) == TRUE
SuggestsImage(e) == In("image", Lower(e)) \/ In("not a video", Lower(e))

\* the messages of the platform's error answers, and of the exceptions the
\* local steps raise
PlatformMessages ==
    {"Could not download file", "File is Not a Video",
     "Problem reading image", "Invalid parameter"}
IngestError == "Upload error"
LocalGetError == "404 Client Error"
NoHashError == "Meta não retornou hash da imagem"

\* The URLs handed to upload_media: the link as _normalize_drive_link sees
\* it and the extension of its path
Url(name, l, ext) == [name |-> name, link |-> l, ext |-> ext]
Urls ==
    {Url("drive_share",
         [host |-> DRIVE_HOST, path |-> "file_d", path_id |-> "ID1",
          id_eq |-> FALSE, query_id |-> "None"], ""),
     Url("drive_open",
         [host |-> DRIVE_HOST, path |-> "open", path_id |-> "None",
          id_eq |-> TRUE, query_id |-> "ID1"], ""),
     Url("cdn_mp4",
         [host |-> "example.com", path |-> "open", path_id |-> "None",
          id_eq |-> FALSE, query_id |-> "None"], ".mp4"),
     Url("cdn_jpg",
         [host |-> "example.com", path |-> "open", path_id |-> "None",
          id_eq |-> FALSE, query_id |-> "None"], ".jpg"),
     Url("cdn_plain",
         [host |-> "example.com", path |-> "open", path_id |-> "None",
          id_eq |-> FALSE, query_id |-> "None"], "")}
IMAGE_EXTS == {".jpg", ".jpeg", ".png", ".webp", ".heic"}
\* os.path.splitext(norm_url.split('?')[0])[1].lower(): the direct-download
\* form of a drive link ends in /uc
ExtOfUrl(u, nurl) ==
    IF nurl.host = DRIVE_HOST /\ nurl.path = "uc" THEN "" ELSE u.ext
\* the Content-Type of the answer to requests.head, or "raises"
HeadAnswers == {"Video/mp4", "image/jpeg", "text/html", "raises"}

\* media_type as lines 741-753 leave it ("None": not determined)
MediaType(u, nurl, head) ==
    LET ext    == ExtOfUrl(u, nurl)
        by_ext == IF ext \in VIDEO_EXTS THEN "video"
                  ELSE IF ext \in IMAGE_EXTS THEN "image" ELSE "None"
    IN IF by_ext = "None" \/ nurl.host = DRIVE_HOST
       THEN IF head = "raises" THEN by_ext
            ELSE IF In("video", Lower(head)) THEN "video"
            ELSE IF In("image", Lower(head)) THEN "image"
            ELSE by_ext
       ELSE by_ext
\* `if media_type == 'video' or (not media_type and 'drive.google.com' in
\* norm_url)`
TreatedAsVideo(media_type, nurl) ==
    media_type = "video" \/ (media_type = "None" /\ nurl.host = DRIVE_HOST)

\* the hash the platform gives the frame extracted in attempt k of call n
ThumbName(n, k) ==
    CASE n = 1 -> <<"T11", "T12", "T13">>[k]
      [] n = 2 -> <<"T21", "T22", "T23">>[k]
      [] n = 3 -> <<"T31", "T32", "T33">>[k]
      [] OTHER -> <<"T41", "T42", "T43">>[k]
ThumbOuts(n, k) ==
    [a \in Attempts |-> [ok |-> TRUE, val |-> ThumbName(n, k), err |-> "None",
                         usage |-> 10]]

\* the runs of _download_file the fallback meets: a plain download, a
\* confirmation page followed by the file, a page that stays a page
FetchRuns ==
    {[first |-> Response("no", "None", Binary), second |-> NoDownload.second],
     [first |-> Response("no", "None", Interstitial("tk1")),
      second |-> Response("no", "None", Binary)],
     [first |-> Response("no", "None", Interstitial("None")),
      second |-> Response("no", "None", Interstitial("None"))]}
Fetched(run) == DownloadFile(FALSE, run.first, NoDownload.cookied, run.second).ret

\* what one invocation of _do meets: the platform's answer to the POST,
\* the run of the local download, the frame tool, the local ingestion
DoEnv(post, msg, run, tool, ingest) ==
    [post |-> post, msg |-> msg, run |-> run, tool |-> tool, ingest |-> ingest]
PlainRun == CHOOSE r \in FetchRuns : r.first.body = Binary
VideoEnvs ==
    {DoEnv("id", "None", PlainRun, "ok", TRUE),
     DoEnv("no_id", "None", PlainRun, "ok", TRUE)}
    \cup {DoEnv("error", m, PlainRun, "ok", TRUE) :
            m \in {x \in PlatformMessages : ~CannotFetch(x)}}
    \cup {DoEnv("error", m, r, "ok", TRUE) :
            m \in PlatformMessages, r \in {x \in FetchRuns : ~Fetched(x)}}
    \cup {DoEnv("error", m, r, t, i) :
            m \in PlatformMessages, r \in {x \in FetchRuns : Fetched(x)},
            t \in {"ok", "missing"}, i \in BOOLEAN}
ImageEnvs ==
    {DoEnv("hash", "None", PlainRun, "ok", TRUE),
     DoEnv("no_hash", "None", PlainRun, "ok", TRUE),
     DoEnv("no_images", "None", PlainRun, "ok", TRUE)}
    \cup {DoEnv("error", m, r, "ok", i) :
            m \in PlatformMessages, r \in {PlainRun} \cup {x \in FetchRuns : ~Fetched(x)},
            i \in BOOLEAN}

AttemptResult(ok, val, err, events, thumb) ==
    [ok |-> ok, val |-> val, err |-> err, events |-> events, thumb |-> thumb]

\* _do of upload_video_url (lines 580-605), invocation k of call n
VideoDo(env, n, k) ==
    CASE env.post = "id" -> AttemptResult(TRUE, "V1", "None", <<"post">>, "None")
      [] env.post = "no_id" -> AttemptResult(TRUE, "None", "None", <<"post">>, "None")
      [] OTHER ->
         IF ~CannotFetch(env.msg)
         THEN AttemptResult(FALSE, "None", env.msg, <<"post">>, "None")
         ELSE IF ~Fetched(env.run)
         THEN AttemptResult(FALSE, "None", env.msg, <<"post", "download_failed">>, "None")
         ELSE LET t == ExtractVideoThumbnail(env.tool, ThumbOuts(n, k)).thumb_hash
                  ev == <<"post", "download_ok", "extract", "ingest", "unlink">>
              IN IF env.ingest
                 THEN AttemptResult(TRUE, "V2", "None", ev, t)
                 ELSE AttemptResult(FALSE, "None", IngestError, ev, t)

\* _do of upload_image_url (lines 532-567)
ImageDo(env) ==
    CASE env.post = "hash" -> AttemptResult(TRUE, "H1", "None", <<"post">>, "None")
      [] env.post = "no_hash" -> AttemptResult(TRUE, "None", "None", <<"post">>, "None")
      [] env.post = "no_images" ->
           AttemptResult(FALSE, "None", NoHashError, <<"post">>, "None")
      [] OTHER ->
         IF ~CannotFetch(env.msg)
         THEN AttemptResult(FALSE, "None", env.msg, <<"post">>, "None")
         ELSE IF ~Fetched(env.run)
         THEN AttemptResult(FALSE, "None", LocalGetError, <<"post", "download_failed">>, "None")
         ELSE LET ev == <<"post", "download_ok", "ingest", "unlink">>
              IN IF env.ingest
                 THEN AttemptResult(TRUE, "H2", "None", ev, "None")
                 ELSE AttemptResult(FALSE, "None", IngestError, ev, "None")

\* `self._pending_thumb_hash = None  # Resetar antes de cada upload`
ResetPending_Keeps(pending) == pending
ResetPending(pending) == "None"

\* the descriptors of lines 761, 766 and 770
VideoDescriptor(video_id, thumb_hash, url) ==
    FromUrl(VideoMedia(video_id, thumb_hash), url)
ImageDescriptor(image_hash, url) == FromUrl(ImageMedia(image_hash), url)

\* bound on the upload_media calls made on one uploader
MaxCalls == 2

NoCall ==
    [url |-> "None", treated |-> "None", phase |-> "idle", attempt |-> 0,
     last |-> <<>>, lastBy |-> "None", lastPost |-> "None",
     lastMsg |-> "None", err |-> "None", videoErr |-> "None",
     imageRuns |-> 0, thumbs |-> {}, media |-> NoneMedia, raised |-> "None"]
\* n: calls begun; pending: self._pending_thumb_hash; left: what that slot
\* held when the current call began
NoUrlCalls == [n |-> 0, pending |-> "None", left |-> "None", call |-> NoCall]
(* ===== temporary files of the uploader (meta_api.py:550, 588, 619) ===== *)
\* bound on the seconds int(time.time()) advances while the workers run
MaxClock == 2
\* the request threads, each with its own uploader
Workers == {1, 2}
\* f"vid_{...}.mp4", f"img_fallback_{...}.jpg", f"thumb_{...}.jpg"
TempKinds == {"vid", "img_fallback", "thumb"}
\* os.path.join(tempfile.gettempdir(), f"{kind}_{int(time.time())}.ext"):
\* one directory for the whole process, the name made of the kind and the
\* second
TempPath(kind, now) == <<kind, now>>
TempPaths == {TempPath(k, t) : k \in TempKinds, t \in 0 .. MaxClock + 1}
NoPath == <<"none", 0>>
\* files: for each path, the worker whose bytes the file holds (0: no file)
NoTemp ==
    [now |-> 0, files |-> [q \in TempPaths |-> 0],
     w |-> [i \in Workers |-> [pc |-> "idle", path |-> NoPath]]]

(* ============================== actions ================================ *)
vars == <<logs, sleeps, rres, netTrace, usageDue, ops, thunk, hdr, rl, cin, cout,
          items, cfg, q_adset_id, qpc, qi, cur, results, adRequests, started,
          hist, delays, interDelays, summary, wpc, form, log_queue, wenv, wrun,
          taken, stream, gpc, link, norm, crun, dups, poll,
          posts, mres, idt, dl, um, tf>>

NoHeader == [kind |-> "no_headers", res |-> <<>>]
RlIdle == [done |-> FALSE, ret |-> FALSE, raised |-> "None"]
NoArgs == [feed |-> NoneMedia, stories |-> NoneMedia, instagram_user_id |-> "None"]
CoutIdle == [done |-> FALSE, raised |-> "None", payload |-> EmptyPayload]
NoForm == [feed |-> FALSE, stories |-> FALSE, estrategia |-> "None", destino |-> "None"]
AllOk == [st \in RemoteSteps |-> "ok"]

\* ---- the parts of the state before the operation that uses them starts
IdleUploader == logs = <<>> /\ sleeps = <<>>
IdleRetry ==
    /\ rres = RetryStart /\ netTrace = <<>> /\ usageDue = FALSE /\ ops = 0
    /\ thunk = NoThunk
IdleRate == hdr = NoHeader /\ rl = RlIdle
IdlePayload == cin = NoArgs /\ cout = CoutIdle
IdleQueue ==
    /\ items = <<>> /\ cfg = NoConfig /\ q_adset_id = "None"
    /\ qpc = "idle" /\ qi = 0 /\ cur = NoLocals
    /\ results = <<>> /\ adRequests = {} /\ started = <<>> /\ hist = <<>>
    /\ delays = 0 /\ interDelays = <<>> /\ summary = NoSummary
IdleWorker ==
    /\ wpc = "idle" /\ form = NoForm /\ log_queue = <<>>
    /\ wenv = AllOk /\ wrun = NoRun
IdleDup == dups = <<>>
IdlePoll == poll = NoPoll
IdlePost == posts = <<>>
IdleMedia == mres = NoUpload
IdleIdentity == idt = NoIdentity
IdleTransfer == dl = NoDownload /\ um = NoUrlCalls /\ tf = NoTemp
IdleConsumer == taken = 0 /\ stream = <<>> /\ gpc = "idle"
IdleLink == link = EmptyLink /\ norm = <<>>
CrunIdle ==
    [done |-> FALSE, raised |-> "None", value |-> "None", derive |-> "ok",
     runs |-> <<>>, sleeps |-> <<>>, log |-> <<>>]
IdleCreative == crun = CrunIdle

\* ---- the retry executor run ops times on one uploader
InitRetry ==
    /\ IdleTransfer /\ IdleIdentity /\ IdleMedia /\ IdlePost /\ IdlePoll
    /\ IdleDup
    /\ IdleConsumer /\ IdleCreative /\ IdleLink /\ IdleUploader /\ IdleRetry
    /\ IdleRate /\ IdlePayload /\ IdleQueue
    /\ IdleWorker

\* the last response of a trace of calls met the threshold
LastUsageDue(due, calls) ==
    LET idx == {i \in 1 .. Len(calls) : calls[i].ev = "call"}
    IN IF idx = {} THEN due
       ELSE LET last == CHOOSE i \in idx : \A j \in idx : j <= i
            IN calls[last].usage >= RATE_LIMIT_THRESHOLD

RunWithRetry ==
    /\ ops < MaxOps
    /\ \E outs \in [Attempts -> ThunkOutcomes] :
         LET r == WithRetry(outs)
         IN /\ rres' = r
            /\ thunk' = outs
            /\ logs' = logs \o r.log
            /\ sleeps' = sleeps \o r.sleeps
            /\ netTrace' = r.calls
            /\ usageDue' = LastUsageDue(usageDue, r.calls)
    /\ ops' = ops + 1
    /\ UNCHANGED <<lvars, cvars, qvars, wvars, nvars, kvars, gvars, dvars, pvars, ovars, mvars, ivars, xvars>>

NextRetry == RunWithRetry
SpecRetry == InitRetry /\ [][NextRetry]_vars

\* ---- one call of check_rate_limit
InitRate ==
    /\ IdleTransfer /\ IdleIdentity /\ IdleMedia /\ IdlePost /\ IdlePoll
    /\ IdleDup
    /\ IdleConsumer /\ IdleCreative /\ IdleLink /\ IdleUploader /\ IdleRetry
    /\ IdlePayload /\ IdleQueue /\ IdleWorker
    /\ hdr \in Headers /\ rl = RlIdle

CheckRateLimitCall ==
    /\ ~rl.done
    /\ LET r == CheckRateLimit(hdr)
       IN /\ rl' = [done |-> TRUE, ret |-> r.ret, raised |-> r.raised]
          /\ logs' = logs \o r.log
          /\ sleeps' = sleeps \o r.sleeps
    /\ UNCHANGED <<hdr, rvars, cvars, qvars, wvars, nvars, kvars, gvars, dvars, pvars, ovars, mvars, ivars, xvars>>

NextRate == CheckRateLimitCall
SpecRate == InitRate /\ [][NextRate]_vars

\* ---- the primary-strategy payload of one create_creative_with_placements
InitPayload ==
    /\ IdleTransfer /\ IdleIdentity /\ IdleMedia /\ IdlePost /\ IdlePoll
    /\ IdleDup
    /\ IdleConsumer /\ IdleCreative /\ IdleLink /\ IdleUploader /\ IdleRetry
    /\ IdleRate /\ IdleQueue /\ IdleWorker
    /\ cin \in [feed : Medias \cup {NoneMedia}, stories : Medias \cup {NoneMedia},
                instagram_user_id : {"None", "ig1"}]
    /\ cout = CoutIdle

TryComplexCreative ==
    /\ ~cout.done
    /\ LET r == ComplexPayload(cin)
       IN cout' = [done |-> TRUE, raised |-> r.raised, payload |-> r.payload]
    /\ UNCHANGED <<cin, uvars, rvars, lvars, qvars, wvars, nvars, kvars, gvars, dvars, pvars, ovars, mvars, ivars, xvars>>

NextPayload == TryComplexCreative
SpecPayload == InitPayload /\ [][NextPayload]_vars

\* ---- one call of create_creative_with_placements
CreativeFeeds ==
    {NoneMedia, ImageMedia("H1"), VideoMedia("V1", "None"), VideoMedia("V1", "T1"),
     FromUrl(VideoMedia("V1", "None"), "url1"),
     FromUrl(VideoMedia("V1", "T1"), "url1")}
CreativeStories == {NoneMedia, ImageMedia("H2"), VideoMedia("V2", "None")}

InitCreative ==
    /\ IdleTransfer /\ IdleIdentity /\ IdleMedia /\ IdlePost /\ IdlePoll
    /\ IdleDup
    /\ IdleConsumer /\ IdleLink /\ IdleUploader /\ IdleRetry /\ IdleRate
    /\ IdleQueue /\ IdleWorker
    /\ cin \in [feed : CreativeFeeds, stories : CreativeStories,
                instagram_user_id : {"None", "ig1"}]
    /\ cout = CoutIdle
    /\ crun = CrunIdle

\* the thumbnail is re-derived from source_url in the fallback strategy
DerivesThumb(args) ==
    LET n == NormalizeMedia(args.feed, args.stories)
    IN /\ n.raised = "None"
       /\ n.feed.type = "video" /\ n.stories.type # "image"
       /\ n.feed.thumb_hash = "None" /\ n.feed.source_url # "None"

\* no run of _do follows a run answered by e: the call raised before the
\* first run, or that run returned
LastRun(args, derive, e) ==
    LET n == NormalizeMedia(args.feed, args.stories)
    IN \/ n.raised # "None"
       \/ DoCreative(n.feed, n.stories, args.instagram_user_id, derive, e).out.ok

CreateCreativeWithPlacements ==
    /\ ~crun.done
    /\ \E derive \in IF DerivesThumb(cin) THEN DeriveOutcomes ELSE {"ok"},
          e1 \in RunEnvs(cin.instagram_user_id) :
       \* the answers to a run that does not happen are not enumerated
       \E e2 \in IF LastRun(cin, derive, e1) THEN {e1}
                  ELSE RunEnvs(cin.instagram_user_id) :
       \E e3 \in IF LastRun(cin, derive, e2) THEN {e2}
                  ELSE RunEnvs(cin.instagram_user_id) :
         LET r == CreateCreativeRun(cin, derive, <<e1, e2, e3>>)
         IN /\ crun' = r
            /\ logs' = logs \o r.log
            /\ sleeps' = sleeps \o r.sleeps
    /\ UNCHANGED <<cin, cout, rvars, lvars, qvars, wvars, nvars, gvars, dvars, pvars, ovars, mvars, ivars, xvars>>

NextCreative == CreateCreativeWithPlacements
SpecCreative == InitCreative /\ [][NextCreative]_vars

\* ---- _normalize_drive_link applied to a link, then to what it returned
InitLink ==
    /\ IdleTransfer /\ IdleIdentity /\ IdleMedia /\ IdlePost /\ IdlePoll
    /\ IdleDup
    /\ IdleConsumer /\ IdleCreative /\ IdleUploader /\ IdleRetry /\ IdleRate
    /\ IdlePayload /\ IdleQueue
    /\ IdleWorker
    /\ link \in Links /\ norm = <<>>

NormalizeCall ==
    /\ Len(norm) < MaxNormalize
    /\ norm # <<>> => norm[Len(norm)].raised = "None"
    /\ LET arg == IF norm = <<>> THEN link ELSE norm[Len(norm)].value
       IN norm' = Append(norm, NormalizeDriveLink(arg))
    /\ UNCHANGED <<link, uvars, rvars, lvars, cvars, qvars, wvars, kvars, gvars, dvars, pvars, ovars, mvars, ivars, xvars>>

NextLink == NormalizeCall
SpecLink == InitLink /\ [][NextLink]_vars

\* ---- one call of _download_file
InitDownload ==
    /\ IdleIdentity /\ IdleMedia /\ IdlePost /\ IdlePoll /\ IdleDup
    /\ IdleConsumer /\ IdleCreative /\ IdleLink /\ IdleUploader /\ IdleRetry
    /\ IdleRate /\ IdlePayload /\ IdleQueue /\ IdleWorker
    /\ dl = NoDownload /\ um = NoUrlCalls /\ tf = NoTemp

DownloadCall ==
    /\ ~dl.done
    /\ \E existed \in BOOLEAN, first \in FirstResponses :
       \E cookied \in IF first.raises = "no" /\ first.cookie # "None"
                       THEN Responses ELSE {NoDownload.cookied} :
       \E second \in Responses :
         LET r == DownloadFile(existed, first, cookied, second)
         IN /\ dl' = [done |-> TRUE, existed |-> existed, first |-> first,
                      cookied |-> cookied, second |-> second, res |-> r]
            /\ logs' = logs \o r.log
    /\ UNCHANGED <<sleeps, um, tf, rvars, lvars, cvars, qvars, wvars, gvars, nvars,
                   kvars, dvars, pvars, ovars, mvars, ivars>>

NextDownload == DownloadCall
SpecDownload == InitDownload /\ [][NextDownload]_vars

\* ---- upload_media(url=...) calls on one uploader, one invocation of
\* ---- _do per step
InitUrl ==
    /\ IdleIdentity /\ IdleMedia /\ IdlePost /\ IdlePoll /\ IdleDup
    /\ IdleConsumer /\ IdleCreative /\ IdleLink /\ IdleUploader /\ IdleRetry
    /\ IdleRate /\ IdlePayload /\ IdleQueue /\ IdleWorker
    /\ dl = NoDownload /\ um = NoUrlCalls /\ tf = NoTemp

UrlFrame ==
    UNCHANGED <<dl, tf, uvars, rvars, lvars, cvars, qvars, wvars, gvars, nvars,
                kvars, dvars, pvars, ovars, mvars, ivars>>

\* upload_media(url=u) up to the call of upload_video_url or
\* upload_image_url (lines 733-758, 769), and the entry of that function up
\* to its _with_retry (lines 575-578 and 607, or 527-530)
UploadMediaUrl ==
    /\ um.call.phase \in {"idle", "done"}
    /\ um.n < MaxCalls
    /\ \E u \in Urls, head \in HeadAnswers :
         LET nurl == NormalizeDriveLink(u.link)
             mt   == MediaType(u, nurl.value, head)
             c    == [NoCall EXCEPT !.url = u.name]
         IN IF nurl.raised # "None"
            THEN um' = [um EXCEPT !.n = @ + 1,
                          !.left = um.pending,
                          !.call = [c EXCEPT !.phase = "done",
                                             !.raised = nurl.raised]]
            ELSE IF TreatedAsVideo(mt, nurl.value)
            THEN um' = [n |-> um.n + 1, pending |-> ResetPending(um.pending),
                        left |-> um.pending,
                        call |-> [c EXCEPT !.phase = "video", !.attempt = 1,
                                           !.treated = "video"]]
            ELSE um' = [um EXCEPT !.n = @ + 1,
                          !.left = um.pending,
                          !.call = [c EXCEPT !.phase = "image", !.attempt = 1,
                                             !.treated = "image"]]
    /\ UrlFrame

\* one invocation of _do by the _with_retry of upload_video_url, and what
\* follows it: the return through lines 609-610 and 760-761, or the backoff,
\* or the raise caught at line 762
VideoAttempt ==
    /\ um.call.phase = "video"
    /\ \E env \in VideoEnvs :
         LET c    == um.call
             d    == VideoDo(env, um.n, c.attempt)
             pend == IF d.thumb # "None" THEN d.thumb ELSE um.pending
             e    == LastError(c.err, d.err)
             c1   == [c EXCEPT !.last = d.events, !.lastBy = "video",
                               !.lastPost = env.post, !.lastMsg = env.msg,
                               !.thumbs = IF d.thumb # "None"
                                          THEN @ \cup {d.thumb} ELSE @]
         IN um' = [um EXCEPT
               !.pending = pend,
               !.call =
                  IF d.ok
                  THEN [c1 EXCEPT !.phase = "done",
                                  !.media = VideoDescriptor(d.val, pend, c.url)]
                  ELSE IF RetryFollows(c.attempt)
                  THEN [c1 EXCEPT !.attempt = @ + 1, !.err = e]
                  ELSE IF SuggestsImage(e)
                  THEN [c1 EXCEPT !.phase = "image", !.attempt = 1,
                                  !.err = "None", !.videoErr = e,
                                  !.imageRuns = @ + 1]
                  ELSE [c1 EXCEPT !.phase = "done", !.videoErr = e,
                                  !.raised = e]]
    /\ UrlFrame

\* one invocation of _do by the _with_retry of upload_image_url, and what
\* follows it: lines 570-571 and the descriptor of line 766 or 770
\* (image_hash[:12] raises TypeError on None), or the backoff, or the raise
ImageAttempt ==
    /\ um.call.phase = "image"
    /\ \E env \in ImageEnvs :
         LET c  == um.call
             d  == ImageDo(env)
             e  == LastError(c.err, d.err)
             c1 == [c EXCEPT !.last = d.events, !.lastBy = "image",
                             !.lastPost = env.post, !.lastMsg = env.msg]
         IN um' = [um EXCEPT
               !.call =
                  IF d.ok
                  THEN IF d.val = "None"
                       THEN [c1 EXCEPT !.phase = "done", !.raised = "TypeError"]
                       ELSE [c1 EXCEPT !.phase = "done",
                                       !.media = ImageDescriptor(d.val, c.url)]
                  ELSE IF RetryFollows(c.attempt)
                  THEN [c1 EXCEPT !.attempt = @ + 1, !.err = e]
                  ELSE [c1 EXCEPT !.phase = "done", !.raised = e]]
    /\ UrlFrame

NextUrl == UploadMediaUrl \/ VideoAttempt \/ ImageAttempt
SpecUrl == InitUrl /\ [][NextUrl]_vars

\* ---- two upload requests whose uploaders go through a temporary file
InitTemp ==
    /\ IdleIdentity /\ IdleMedia /\ IdlePost /\ IdlePoll /\ IdleDup
    /\ IdleConsumer /\ IdleCreative /\ IdleLink /\ IdleUploader /\ IdleRetry
    /\ IdleRate /\ IdlePayload /\ IdleQueue /\ IdleWorker
    /\ dl = NoDownload /\ um = NoUrlCalls /\ tf = NoTemp

TempFrame ==
    UNCHANGED <<dl, um, uvars, rvars, lvars, cvars, qvars, wvars, gvars, nvars,
                kvars, dvars, pvars, ovars, mvars, ivars>>

\* the clock passes to the next second
Tick ==
    /\ tf.now < MaxClock
    /\ tf' = [tf EXCEPT !.now = @ + 1]
    /\ TempFrame

\* tmp_path = ... (line 588 or 550), thumb_path = ... (line 619)
NameTemp(i) ==
    /\ tf.w[i].pc = "idle"
    /\ \E kind \in TempKinds :
         tf' = [tf EXCEPT !.w[i] = [pc |-> "named", path |-> TempPath(kind, tf.now)]]
    /\ TempFrame

\* the file is written: open(dest_path, 'wb') in _download_file (line 463),
\* open(tmp_path, 'wb') (line 551), ffmpeg -y (line 632)
WriteTemp(i) ==
    /\ tf.w[i].pc = "named"
    /\ tf' = [tf EXCEPT !.files[tf.w[i].path] = i, !.w[i].pc = "written"]
    /\ TempFrame

\* the file is read by the ingestion: upload_video (line 597), upload_image
\* (lines 555 and 637)
IngestTemp(i) ==
    /\ tf.w[i].pc = "written"
    /\ tf' = [tf EXCEPT !.w[i].pc = "ingested"]
    /\ TempFrame

\* the finally clauses: `if os.path.exists(p): os.unlink(p)` (lines 601-602,
\* 558-559, 640-641)
UnlinkTemp(i) ==
    /\ tf.w[i].pc = "ingested"
    /\ tf' = [tf EXCEPT !.files[tf.w[i].path] = 0, !.w[i].pc = "cleaned"]
    /\ TempFrame

NextTemp ==
    \/ Tick
    \/ \E i \in Workers :
         NameTemp(i) \/ WriteTemp(i) \/ IngestTemp(i) \/ UnlinkTemp(i)
SpecTemp == InitTemp /\ [][NextTemp]_vars

\* ---- process_queue over a batch, and upload requests
Init ==
    /\ IdleTransfer /\ IdleIdentity /\ IdleMedia /\ IdlePost /\ IdlePoll
    /\ IdleDup
    /\ IdleConsumer /\ IdleCreative /\ IdleLink /\ IdleUploader /\ IdleRetry
    /\ IdleRate /\ IdlePayload
    /\ items \in Batches /\ cfg \in Configs /\ q_adset_id \in AdSetArgs
    /\ qpc = "start" /\ qi = 0 /\ cur = NoLocals
    /\ results = <<>> /\ adRequests = {} /\ started = <<>> /\ hist = <<>>
    /\ delays = 0 /\ interDelays = <<>> /\ summary = NoSummary
    /\ wpc = "idle" /\ form \in Forms /\ log_queue = <<>>
    /\ wenv = AllOk /\ wrun = NoRun

Total == Len(items)

\* results = [], total = len(queue_items), entry into the for loop
StartBatch ==
    /\ qpc = "start"
    /\ qi' = 1
    /\ qpc' = IF Total >= 1 THEN "begin" ELSE "summary"
    /\ UNCHANGED <<items, cfg, q_adset_id, cur, results, adRequests, started, hist, delays,
                   interDelays, summary, uvars, rvars, lvars, cvars, wvars, nvars,
                 kvars, gvars, dvars, pvars, ovars, mvars, ivars, xvars>>

\* top of the loop body: ad_name and the "Processando" log line
BeginItem ==
    /\ qpc = "begin"
    /\ cur' = [NoLocals EXCEPT !.ad_name = AdNameOf(items[qi], qi)]
    /\ started' = Append(started, qi)
    /\ hist' = Append(hist, NoHist)
    /\ qpc' = "feed"
    /\ UNCHANGED <<items, cfg, q_adset_id, qi, results, adRequests, delays, interDelays,
                   summary, uvars, rvars, lvars, cvars, wvars, nvars, kvars, gvars, dvars, pvars, ovars, mvars, ivars, xvars>>

\* upload_media of one side followed by smart_delay (lines 1318-1327)
UploadSide(path, here, next) ==
    /\ qpc = here
    /\ IF path = "None"
       THEN /\ qpc' = next
            /\ UNCHANGED <<cur, hist, delays>>
       ELSE \E outs \in [Attempts -> CallOutcomes],
               tool \in IF ExtOf(path) \in VIDEO_EXTS THEN ToolOutcomes ELSE {"ok"} :
            \* the frame tool and the frame's ingestion run for videos only
            \E thumbOuts \in IF tool = "ok" /\ ExtOf(path) \in VIDEO_EXTS
                              THEN [Attempts -> CallOutcomes] ELSE {outs} :
              LET r == UploadMediaLocal(path, tool, thumbOuts, outs)
              IN /\ hist' = [hist EXCEPT ![qi].called = TRUE,
                                         ![qi].failed = @ \/ r.failed,
                                         ![qi].raised = r.raised]
                 /\ IF r.raised = "None"
                    THEN /\ cur' = IF here = "feed"
                                   THEN [cur EXCEPT !.feed_media = r.media,
                                           !.trace = @ \o ThenDelay(here, TRUE)]
                                   ELSE [cur EXCEPT !.stories_media = r.media,
                                           !.trace = @ \o ThenDelay(here, TRUE)]
                         /\ delays' = delays + 1
                         /\ qpc' = next
                    ELSE /\ cur' = [cur EXCEPT !.exc = r.raised,
                                      !.trace = @ \o ThenDelay(here, FALSE)]
                         /\ delays' = delays + Len(ThenDelay(here, FALSE)) - 1
                         /\ qpc' = "except"
    /\ UNCHANGED <<items, cfg, q_adset_id, qi, results, adRequests, started, interDelays,
                   summary, uvars, rvars, lvars, cvars, wvars, nvars, kvars, gvars, dvars, pvars, ovars, mvars, ivars, xvars>>

UploadFeed == UploadSide(items[qi].feed_file_path, "feed", "stories")
UploadStories == UploadSide(items[qi].stories_file_path, "stories", "creative")

\* create_creative_with_placements followed by smart_delay (lines 1330-1342)
CreateCreative ==
    /\ qpc = "creative"
    /\ LET n == NormalizeMedia(cur.feed_media, cur.stories_media)
       IN IF n.raised # "None"
          THEN /\ cur' = [cur EXCEPT !.exc = NoMediaError,
                                      !.trace = @ \o ThenDelay("creative", FALSE)]
               /\ hist' = [hist EXCEPT ![qi].raised = NoMediaError]
               /\ delays' = delays + Len(ThenDelay("creative", FALSE)) - 1
               /\ qpc' = "except"
          ELSE \E outs \in [Attempts -> CallOutcomes] :
                 LET r == WithRetry(outs)
                 IN /\ hist' = [hist EXCEPT
                                  ![qi].called = TRUE,
                                  ![qi].failed = @ \/ FailedCalls(outs, r),
                                  ![qi].raised = IF r.raised THEN r.error ELSE "None"]
                    /\ IF r.raised
                       THEN /\ cur' = [cur EXCEPT !.exc = r.error,
                                        !.trace = @ \o ThenDelay("creative", FALSE)]
                            /\ delays' = delays + Len(ThenDelay("creative", FALSE)) - 1
                            /\ qpc' = "except"
                       ELSE /\ cur' = [cur EXCEPT !.creative_id = r.value,
                                        !.trace = @ \o ThenDelay("creative", TRUE)]
                            /\ delays' = delays + 1
                            /\ qpc' = "ad"
    /\ UNCHANGED <<items, cfg, q_adset_id, qi, results, adRequests, started, interDelays,
                   summary, uvars, rvars, lvars, cvars, wvars, nvars, kvars, gvars, dvars, pvars, ovars, mvars, ivars, xvars>>

\* create_ad, then the success record and the rest of the iteration
\* (lines 1345-1352 and 1363-1365)
CreateAd ==
    /\ qpc = "ad"
    /\ \E resps \in [Attempts -> AdResponses] :
         LET r == CreateAdRun(q_adset_id, cur.creative_id, cur.ad_name,
                              cfg.pixel_id, resps)
         IN /\ adRequests' = adRequests \cup r.requests
            /\ hist' = [hist EXCEPT ![qi].called = TRUE,
                                    ![qi].failed = @ \/ r.failed,
                                    ![qi].ad_id = r.ad_id,
                                    ![qi].raised = r.raised]
            /\ IF r.raised = "None"
               THEN /\ results' = Append(results, SuccessRecord(cur.ad_name, r.ad_id))
                    /\ cur' = [cur EXCEPT !.trace = Append(@, StepEvent("ad", TRUE))]
                    /\ delays' = IF DelayBetween(qi, Total) THEN delays + 1 ELSE delays
                    /\ interDelays' = IF DelayBetween(qi, Total)
                                      THEN Append(interDelays, qi) ELSE interDelays
                    /\ qi' = qi + 1
                    /\ qpc' = IF qi < Total THEN "begin" ELSE "summary"
               ELSE /\ cur' = [cur EXCEPT !.exc = r.raised,
                                     !.trace = Append(@, StepEvent("ad", FALSE))]
                    /\ qpc' = "except"
                    /\ UNCHANGED <<results, delays, interDelays, qi>>
    /\ UNCHANGED <<items, cfg, q_adset_id, started, summary, uvars, rvars, lvars, cvars, wvars, nvars,
                 kvars, gvars, dvars, pvars, ovars, mvars, ivars, xvars>>

\* the except block and the rest of the iteration (lines 1354-1365)
HandleFailure ==
    /\ qpc = "except"
    /\ results' = AppendFailure(results, FailureRecord(cur.ad_name, cur.exc))
    /\ delays' = IF DelayBetween(qi, Total) THEN delays + 1 ELSE delays
    /\ interDelays' = IF DelayBetween(qi, Total)
                      THEN Append(interDelays, qi) ELSE interDelays
    /\ qi' = qi + 1
    /\ qpc' = AfterExcept(qi, Total)
    /\ UNCHANGED <<items, cfg, q_adset_id, cur, adRequests, started, hist, summary,
                   uvars, rvars, lvars, cvars, wvars, nvars, kvars, gvars, dvars, pvars, ovars, mvars, ivars, xvars>>

\* the summary line and `return results` (lines 1367-1373)
Summarize ==
    /\ qpc = "summary"
    /\ summary' = [done |-> TRUE,
                   ok |-> Cardinality({k \in 1 .. Len(results) : results[k].success}),
                   fail |-> Cardinality({k \in 1 .. Len(results) : ~results[k].success})]
    /\ qpc' = "done"
    /\ UNCHANGED <<items, cfg, q_adset_id, qi, cur, results, adRequests, started, hist,
                   delays, interDelays, uvars, rvars, lvars, cvars, wvars, nvars,
                 kvars, gvars, dvars, pvars, ovars, mvars, ivars, xvars>>

\* the try and except blocks of run_upload_task
RunUploadTask ==
    /\ wpc = "idle"
    /\ LET r == UploadTaskRun(form, wenv)
       IN /\ wrun' = r.run
          /\ log_queue' = log_queue \o r.puts
    /\ wpc' = "finally"
    /\ UNCHANGED <<form, wenv, qvars, uvars, rvars, lvars, cvars, nvars, kvars,
                   gvars, dvars, pvars, ovars, mvars, ivars, xvars>>

\* the finally block: log_queue.put(None)
WorkerFinally ==
    /\ wpc = "finally"
    /\ log_queue' = log_queue \o FinallyPuts
    /\ wpc' = "done"
    /\ UNCHANGED <<form, wenv, wrun, qvars, uvars, rvars, lvars, cvars, nvars,
                   kvars, gvars, dvars, pvars, ovars, mvars, ivars, xvars>>

\* ---- one upload request: the worker thread and the response generator
InitWorker ==
    /\ IdleTransfer /\ IdleIdentity /\ IdleMedia /\ IdlePost /\ IdlePoll
    /\ IdleDup /\ IdleCreative /\ IdleLink /\ IdleUploader /\ IdleRetry /\ IdleRate
    /\ IdlePayload /\ IdleQueue
    /\ wpc = "idle" /\ form \in UploadForms /\ log_queue = <<>>
    /\ wenv \in WorkerEnvs /\ wrun = NoRun
    /\ taken = 0 /\ stream = <<>> /\ gpc = "reading"

\* `if item is None: break`
Stops_Never(item) == FALSE
Stops(item) == item = Sentinel

\* one turn of the loop of generate_ndjson: get, then break or yield
ConsumeItem ==
    /\ gpc = "reading"
    /\ taken < Len(log_queue)
    /\ taken' = taken + 1
    /\ IF Stops(log_queue[taken + 1])
       THEN gpc' = "closed" /\ stream' = stream
       ELSE gpc' = gpc /\ stream' = Append(stream, log_queue[taken + 1])
    /\ UNCHANGED <<wvars, qvars, uvars, rvars, lvars, cvars, nvars, kvars, dvars, pvars, ovars, mvars, ivars, xvars>>

NextWorker == RunUploadTask \/ WorkerFinally \/ ConsumeItem
SpecWorker == InitWorker /\ [][NextWorker]_vars

\* ---- one call of get_identity_data: the caller and the two pool tasks
InitIdentity ==
    /\ IdleTransfer /\ IdleMedia /\ IdlePost /\ IdlePoll /\ IdleDup /\ IdleConsumer
    /\ IdleCreative /\ IdleLink /\ IdleUploader /\ IdleRetry /\ IdleRate
    /\ IdlePayload /\ IdleQueue /\ IdleWorker
    /\ idt = NoIdentity

IdentityFrame ==
    UNCHANGED <<uvars, rvars, lvars, cvars, qvars, wvars, gvars, nvars, kvars,
                dvars, pvars, ovars, mvars, xvars>>

\* executor.submit(fetch_pages)
SubmitPages ==
    /\ idt.mpc = "start"
    /\ idt' = [idt EXCEPT !.mpc = "submitted_pages", !.ppc = "queued"]
    /\ IdentityFrame

\* executor.submit(fetch_pixels)
SubmitPixels ==
    /\ idt.mpc = "submitted_pages"
    /\ idt' = [idt EXCEPT !.mpc = "joining", !.xpc = "queued"]
    /\ IdentityFrame

\* fetch_pages: the call of self.get_pages()
PagesFetch ==
    /\ idt.ppc = "queued"
    /\ \E a \in PagesAnswers :
         idt' = [idt EXCEPT !.ppc = "fetched", !.pages_fetched = a]
    /\ IdentityFrame

\* fetch_pages: the assignment to the nonlocal pages_result
PagesStore ==
    /\ idt.ppc = "fetched"
    /\ idt' = [idt EXCEPT !.ppc = "done", !.pages_result = idt.pages_fetched]
    /\ IdentityFrame

\* fetch_pixels: the call of self.get_pixels()
PixelsFetch ==
    /\ idt.xpc = "queued"
    /\ \E a \in PixelsAnswers :
         idt' = [idt EXCEPT !.xpc = "fetched", !.pixels_fetched = a]
    /\ IdentityFrame

\* fetch_pixels: the assignment to the nonlocal pixels_result
PixelsStore ==
    /\ idt.xpc = "fetched"
    /\ idt' = [idt EXCEPT !.xpc = "done", !.pixels_result = idt.pixels_fetched]
    /\ IdentityFrame

\* the end of the with block
JoinPool ==
    /\ idt.mpc = "joining" /\ Joined(idt)
    /\ idt' = [idt EXCEPT !.mpc = "lookup"]
    /\ IdentityFrame

\* self.get_instagram_accounts(pages_data=pages_result)
LookupInstagrams ==
    /\ idt.mpc = "lookup"
    /\ idt' = [idt EXCEPT !.mpc = "returning", !.ig_pages_data = idt.pages_result]
    /\ IdentityFrame

\* return {'pages': ..., 'instagrams': ..., 'pixels': ...}
ReturnIdentity ==
    /\ idt.mpc = "returning"
    /\ idt' = [idt EXCEPT !.mpc = "done",
                          !.ret = [pages |-> idt.pages_result,
                                   instagrams |-> idt.ig_pages_data,
                                   pixels |-> idt.pixels_result]]
    /\ IdentityFrame

NextIdentity ==
    \/ SubmitPages \/ SubmitPixels \/ PagesFetch \/ PagesStore
    \/ PixelsFetch \/ PixelsStore \/ JoinPool \/ LookupInstagrams
    \/ ReturnIdentity
SpecIdentity == InitIdentity /\ [][NextIdentity]_vars

\* ---- one upload_media call on a local file
InitMedia ==
    /\ IdleTransfer /\ IdleIdentity /\ IdlePost /\ IdlePoll /\ IdleDup /\ IdleConsumer /\ IdleCreative
    /\ IdleLink /\ IdleUploader /\ IdleRetry /\ IdleRate /\ IdlePayload
    /\ IdleQueue /\ IdleWorker
    /\ mres = NoUpload

UploadMediaCall ==
    /\ ~mres.done
    /\ \E path \in FilePaths, outs \in [Attempts -> CallOutcomes] :
       \E tool \in IF ExtOf(path) \in VIDEO_EXTS THEN ToolOutcomes ELSE {"ok"} :
       \E thumbOuts \in IF tool = "ok" /\ ExtOf(path) \in VIDEO_EXTS
                         THEN [Attempts -> CallOutcomes] ELSE {NoThunk} :
         LET t == IF ExtOf(path) \in VIDEO_EXTS
                  THEN ExtractVideoThumbnail(tool, thumbOuts) ELSE NoExtract
             r == UploadMediaLocal(path, tool, thumbOuts, outs)
         IN /\ mres' = [done |-> TRUE, path |-> path, tool |-> tool,
                        thumbOuts |-> thumbOuts, outs |-> outs, extract |-> t,
                        raised |-> r.raised, media |-> r.media,
                        ingested |-> t.raised = "None"]
            /\ logs' = logs \o t.log
    /\ UNCHANGED <<sleeps, rvars, lvars, cvars, qvars, wvars, gvars, nvars, kvars,
                   dvars, pvars, ovars, ivars, xvars>>

NextMedia == UploadMediaCall
SpecMedia == InitMedia /\ [][NextMedia]_vars

\* ---- the calls of _post_creative of one run of _do
InitPost ==
    /\ IdleTransfer /\ IdleIdentity /\ IdleMedia /\ IdlePoll /\ IdleDup /\ IdleConsumer /\ IdleCreative /\ IdleLink
    /\ IdleUploader /\ IdleRetry /\ IdleRate /\ IdleQueue /\ IdleWorker
    /\ cin \in {a \in [feed : CreativeFeeds, stories : CreativeStories,
                        instagram_user_id : {"None"}] :
                  NormalizeMedia(a.feed, a.stories).raised = "None"}
    /\ cout = CoutIdle
    /\ posts = <<>>

\* try_complex_creative: the primary payload handed to _post_creative
PostComplex ==
    /\ posts = <<>>
    /\ \E resp \in PrimaryResponses :
         LET pd == PayloadDict(ComplexKeys, ComplexPayload(cin).payload, NoStory)
         IN posts' = <<PostCreativeCall("complex", pd,
                                        [i \in 1 .. 2 |-> "ready"], resp)>>
    /\ UNCHANGED <<cin, cout, uvars, rvars, lvars, qvars, wvars, gvars, nvars,
                   kvars, dvars, pvars, mvars, ivars, xvars>>

\* try_simple_creative, entered when the primary strategy gave no id
PostSimple ==
    /\ Len(posts) = 1 /\ FallbackFollows(posts[1].creative_id)
    /\ \E resp \in PrimaryResponses, verdicts \in VerdictSeqs,
          derive \in IF DerivesThumb(cin) THEN DeriveOutcomes ELSE {"ok"} :
         LET n  == NormalizeMedia(cin.feed, cin.stories)
             b  == SimpleStory(n.feed, n.stories, cin.instagram_user_id, derive)
             pd == PayloadDict(SimpleKeys, EmptyPayload, b.story)
         IN posts' = Append(posts, PostCreativeCall("simple+ig", pd, verdicts, resp))
    /\ UNCHANGED <<cin, cout, uvars, rvars, lvars, qvars, wvars, gvars, nvars,
                   kvars, dvars, pvars, mvars, ivars, xvars>>

NextPost == PostComplex \/ PostSimple
SpecPost == InitPost /\ [][NextPost]_vars

\* ---- one call of a readiness poller
InitPoll ==
    /\ IdleTransfer /\ IdleIdentity /\ IdleMedia /\ IdlePost /\ IdleDup /\ IdleConsumer /\ IdleCreative /\ IdleLink /\ IdleUploader
    /\ IdleRetry /\ IdleRate /\ IdlePayload /\ IdleQueue /\ IdleWorker
    /\ poll \in {[NoPoll EXCEPT !.kind = k] : k \in AssetKinds}

\* the entry of wait_for_*_ready: start_time = time.time()
PollStart ==
    /\ poll.pc = "idle"
    /\ poll' = [poll EXCEPT !.pc = "loop"]
    /\ UNCHANGED <<uvars, rvars, lvars, cvars, qvars, wvars, gvars, nvars, kvars,
                   dvars, ovars, mvars, ivars, xvars>>

\* one turn of the while loop; its time.sleep(interval) included
PollOnce ==
    /\ poll.pc = "loop" /\ LoopGoesOn(poll)
    /\ \E obs \in Observations(poll.kind), d \in PollDurations(poll.kind) :
         /\ poll' = PollTurn(poll, obs, d)
         /\ sleeps' = IF poll'.waits > poll.waits
                      THEN Append(sleeps, IntervalOf(poll.kind)) ELSE sleeps
    /\ UNCHANGED <<logs, rvars, lvars, cvars, qvars, wvars, gvars, nvars, kvars,
                   dvars, ovars, mvars, ivars, xvars>>

\* the exit of the while loop once the timeout has elapsed
PollTimeout ==
    /\ poll.pc = "loop" /\ ~LoopGoesOn(poll)
    /\ poll' = PollGivesUp(poll)
    /\ UNCHANGED <<uvars, rvars, lvars, cvars, qvars, wvars, gvars, nvars, kvars,
                   dvars, ovars, mvars, ivars, xvars>>

NextPoll == PollStart \/ PollOnce \/ PollTimeout
SpecPoll == InitPoll /\ [][NextPoll]_vars

\* ---- ad-set duplications, through either route
InitDup ==
    /\ IdleTransfer /\ IdleIdentity /\ IdleMedia /\ IdlePost /\ IdlePoll
    /\ IdleConsumer /\ IdleCreative /\ IdleLink /\ IdleUploader /\ IdleRetry
    /\ IdleRate /\ IdlePayload /\ IdleQueue /\ IdleWorker
    /\ dups = <<>>

\* duplicate_adset_route of app.py: uploader.duplicate_adset(adset_modelo,
\* new_name=adset_name or None)
DuplicateAdsetRoute ==
    /\ Len(dups) < MaxDups
    /\ \E source \in SourceAdSets, name \in NewNames,
          outs \in [Attempts -> CallOutcomes] :
         LET d == DuplicateAdset("app_route", source, name, outs)
         IN dups' = Append(dups, d)
    /\ UNCHANGED <<uvars, rvars, lvars, cvars, qvars, wvars, gvars, nvars, kvars, pvars, ovars, mvars, ivars, xvars>>

\* duplicate_adset_route of modules/creatives.py
CreativesDuplicateRoute ==
    /\ Len(dups) < MaxDups
    /\ \E source \in SourceAdSets, name \in NewNames, copy \in CallOutcomes :
         dups' = Append(dups, RouteDuplicate(source, name, copy))
    /\ UNCHANGED <<uvars, rvars, lvars, cvars, qvars, wvars, gvars, nvars, kvars, pvars, ovars, mvars, ivars, xvars>>

NextDup == DuplicateAdsetRoute \/ CreativesDuplicateRoute
SpecDup == InitDup /\ [][NextDup]_vars

\* ---- termination: an upload request streamed to its consumer, a batch
\* handed to process_queue, or a call of a readiness poller.  The three
\* share no state; a behaviour runs one of them.
RequestStarts ==
    /\ IdleQueue /\ IdlePoll
    /\ wpc = "idle" /\ form \in UploadForms /\ log_queue = <<>>
    /\ wenv \in {AllOk, [st \in RemoteSteps |-> "e1"]} /\ wrun = NoRun
    /\ taken = 0 /\ stream = <<>> /\ gpc = "reading"
BatchStarts ==
    /\ IdleWorker /\ IdleConsumer /\ IdlePoll
    /\ items \in Batches /\ cfg \in Configs /\ q_adset_id = TargetAdSet
    /\ qpc = "start" /\ qi = 0 /\ cur = NoLocals
    /\ results = <<>> /\ adRequests = {} /\ started = <<>> /\ hist = <<>>
    /\ delays = 0 /\ interDelays = <<>> /\ summary = NoSummary
PollStarts ==
    /\ IdleWorker /\ IdleConsumer /\ IdleQueue
    /\ poll \in {[NoPoll EXCEPT !.kind = k, !.requested = TRUE] : k \in AssetKinds}

InitTerm ==
    /\ IdleTransfer /\ IdleIdentity /\ IdleMedia /\ IdlePost /\ IdleDup
    /\ IdleCreative /\ IdleLink /\ IdleUploader /\ IdleRetry /\ IdleRate
    /\ IdlePayload
    /\ RequestStarts \/ BatchStarts \/ PollStarts

\* threading.Thread(target=run_upload_task).start() of a request
StartUploadTask == gpc = "reading" /\ RunUploadTask
\* the entry of the poller that was called
EnterPoll == poll.requested /\ PollStart

NextTerm ==
    \/ StartUploadTask \/ WorkerFinally \/ ConsumeItem
    \/ StartBatch \/ BeginItem \/ UploadFeed \/ UploadStories
    \/ CreateCreative \/ CreateAd \/ HandleFailure \/ Summarize
    \/ EnterPoll \/ PollOnce \/ PollTimeout

\* a thread keeps running while it has a step to take; every remote call,
\* download and tool run is taken to return or fail
SpecTerm == InitTerm /\ [][NextTerm]_vars /\ WF_vars(NextTerm)

Next ==
    \/ StartBatch \/ BeginItem \/ UploadFeed \/ UploadStories
    \/ CreateCreative \/ CreateAd \/ HandleFailure \/ Summarize
    \/ RunUploadTask \/ WorkerFinally

Spec == Init /\ [][Next]_vars

(* ============================== claims ================================= *)
\* ---- the batch view
Returned == qpc = "done"
NoMedia(item) == item.feed_file_path = "None" /\ item.stories_file_path = "None"
\* item k ended in the except block
Failed(k) == k \in 1 .. Len(results) /\ ~results[k].success
\* item k issued remote calls and every one of them succeeded
AllCallsSucceeded(k) == hist[k].called /\ ~hist[k].failed

\* C1: whatever the batch, the configuration (pixel id included) and the
\* upload requests, every ad-creation request create_ad has sent carries
\* status PAUSED.
C1_EveryAdRequestPaused ==
    \A r \in adRequests : r.status = "PAUSED"

\* a request with a pixel id went out, after a first attempt that failed,
\* while an upload request had already been answered
C1_Witness ==
    /\ \E r \in adRequests : r.tracking_specs = "px1" /\ r.status = "PAUSED"
    /\ \E k \in 1 .. Len(hist) : hist[k].ad_id # "None" /\ hist[k].failed
    /\ wpc = "done"

\* C2: process_queue returns exactly one record per input item, and the
\* i-th record carries the name of the i-th item (its ad_name, or the
\* positional default when it has none).
C2_OneRecordPerItemInOrder ==
    Returned =>
        /\ Len(results) = Len(items)
        /\ \A i \in 1 .. Len(results) :
              results[i].ad_name =
                  IF items[i].ad_name # "None" THEN items[i].ad_name
                  ELSE DefaultAdName(i)

\* a batch of two whose unnamed first item failed and whose second succeeded
C2_Witness ==
    /\ Returned /\ Len(items) = 2 /\ Len(results) = 2
    /\ items[1].ad_name = "None" /\ Failed(1) /\ results[1].ad_name = "Ad 1"
    /\ results[2].success /\ results[2].ad_name = items[2].ad_name

\* C3: a failure of item i never keeps the items after it from being
\* processed: when process_queue returns, every item's workflow was started,
\* once and in order, and every item after a failed one whose own remote
\* calls all succeeded has a success record.
C3_FailureDoesNotStopLaterItems ==
    Returned =>
        /\ started = [k \in 1 .. Len(items) |-> k]
        /\ Len(results) = Len(items)
        /\ \A i, j \in 1 .. Len(items) :
              (i < j /\ Failed(i) /\ AllCallsSucceeded(j)) => results[j].success

\* the first item failed at ad creation after its uploads and creative
\* went through; the second, with all calls succeeding, ended with success
C3_Witness ==
    /\ Returned /\ Len(items) = 2 /\ Len(results) = 2
    /\ Failed(1) /\ results[1].error = "Ad falhou: e1"
    /\ started = <<1, 2>> /\ AllCallsSucceeded(2) /\ results[2].success

\* C4: in every record, success is true exactly when ad_id is the id the
\* ad-creation call returned and error is none; success is false exactly
\* when ad_id is none and error is the message of the exception that ended
\* the item, which is the no-media validation error for an item with
\* neither feed nor stories media.
C4_RecordShape ==
    \A i \in 1 .. Len(results) :
        LET r == results[i]
            h == hist[i]
        IN /\ r.success <=>
                 (r.ad_id # "None" /\ r.ad_id = h.ad_id /\ r.error = "None")
           /\ ~r.success <=>
                 (r.ad_id = "None" /\ r.error # "None" /\ r.error = h.raised)
           /\ NoMedia(items[i]) => (~r.success /\ r.error = NoMediaError)

\* the two-item example: success with id "123", then the no-media failure
C4_Witness ==
    /\ Returned /\ Len(items) = 2
    /\ results[1] = SuccessRecord(items[1].ad_name, "123")
    /\ NoMedia(items[2])
    /\ results[2] = FailureRecord("Ad 2", NoMediaError)

\* C11: _normalize_drive_link is idempotent and never raises: for every
\* link, normalizing the value a call returned returns that same value, and
\* an already-normalized direct-download link is returned unchanged.
C11_NormalizeIdempotent ==
    /\ \A k \in 1 .. Len(norm) : norm[k].raised = "None"
    /\ \A k \in 2 .. Len(norm) : norm[k].value = norm[k - 1].value
    /\ (norm # <<>> /\ \E f \in FileIds : link = DirectDownload(f)) =>
           norm[1].value = link

\* ---- one call of create_creative_with_placements
\* the media after the reuse of the supplied side
FeedUsed == NormalizeMedia(cin.feed, cin.stories).feed
StoriesUsed == NormalizeMedia(cin.feed, cin.stories).stories
RunsOf == 1 .. Len(crun.runs)
RequestsOf(k) == crun.runs[k].requests
\* the requests of run k sent by the fallback strategy
FallbackOf(k) ==
    {j \in 1 .. Len(RequestsOf(k)) :
        RequestsOf(k)[j].label \in {"simple+ig", "simple-ig"}}
Rejected(req) == req.resp.id = "None"
\* a video feed with no image to pair and no thumbnail to be had
NoThumbnailToBeHad ==
    /\ crun.done /\ crun.runs # <<>>
    /\ FeedUsed.type = "video" /\ StoriesUsed.type # "image"
    /\ FeedUsed.thumb_hash = "None"
    /\ \/ FeedUsed.source_url = "None"
       \/ crun.derive \in {"download_failed", "no_frame", "error"}
\* the entries that tell of the missing thumbnail
ThumbnailWarnings ==
    {i \in 1 .. Len(crun.log) :
        /\ crun.log[i].kind \in {"warn", "error"}
        /\ crun.log[i].detail \in
              {"no_thumbnail", "no_frame", "thumb_error", "download_failed"}}

LastRequest ==
    RequestsOf(Len(crun.runs))[Len(RequestsOf(Len(crun.runs)))]
\* in the last run both strategies were rejected with a remote error
BothRejected ==
    /\ crun.done /\ crun.runs # <<>>
    /\ RequestsOf(Len(crun.runs))[1].resp.error # "None"
    /\ FallbackOf(Len(crun.runs)) # {}
    /\ LastRequest.resp.error # "None"

\* C19: create_creative_with_placements never returns an empty or none
\* creative id: it returns the id of an accepted request or raises; and
\* when both strategies were rejected it raises the fatal error, which
\* carries the error message of the last rejected request.
C19_BothRejectedIsFatal ==
    crun.done =>
        /\ crun.raised = "None" =>
              /\ crun.value # "None"
              /\ crun.runs # <<>> /\ crun.value = LastRequest.resp.id
        /\ BothRejected =>
              /\ Len(crun.runs) = MAX_RETRIES
              /\ crun.value = "None"
              /\ LastRequest.resp.error = "Invalid parameter" =>
                    crun.raised = "Criação de criativo falhou em todas as estratégias. Último erro: Invalid parameter"
              /\ LastRequest.resp.error = "Invalid Instagram account" =>
                    crun.raised = "Criação de criativo falhou em todas as estratégias. Último erro: Invalid Instagram account"

\* three runs, the last one ending with the rejection of the re-sent
\* fallback request
C19_Witness ==
    /\ BothRejected /\ Len(crun.runs) = 3
    /\ Len(RequestsOf(3)) = 3
    /\ RequestsOf(3)[2].resp.error = "Invalid Instagram account"
    /\ LastRequest.resp.error = "Invalid parameter"
    /\ crun.raised = "Criação de criativo falhou em todas as estratégias. Último erro: Invalid parameter"

\* C20: within one run of the fallback strategy the payload is re-sent
\* exactly when an instagram_user_id was attached and the first fallback
\* request was rejected with a message citing instagram; it is re-sent at
\* most once, and the re-sent payload is the first one without its
\* instagram_user_id.
C20_ResendWithoutInstagramOnce ==
    \A k \in RunsOf :
        FallbackOf(k) # {} =>
            LET first == RequestsOf(k)[2]
                resent == {j \in FallbackOf(k) : j > 2}
            IN /\ first.label = "simple+ig"
               /\ first.story.instagram_user_id = cin.instagram_user_id
               /\ Cardinality(resent) <= 1
               /\ resent # {} <=>
                     /\ cin.instagram_user_id # "None"
                     /\ Rejected(first)
                     /\ first.resp.error = "Invalid Instagram account"
               /\ \A j \in resent :
                     /\ RequestsOf(k)[j].label = "simple-ig"
                     /\ RequestsOf(k)[j].story.instagram_user_id = "None"
                     /\ RequestsOf(k)[j].story =
                           [first.story EXCEPT !.instagram_user_id = "None"]

\* the first fallback request was rejected citing instagram, and the
\* re-sent one, without the reference, was accepted
C20_Witness ==
    /\ crun.done /\ Len(crun.runs) = 1 /\ cin.instagram_user_id = "ig1"
    /\ Len(RequestsOf(1)) = 3
    /\ RequestsOf(1)[2].resp.error = "Invalid Instagram account"
    /\ RequestsOf(1)[2].story.instagram_user_id = "ig1"
    /\ RequestsOf(1)[3].story.instagram_user_id = "None"
    /\ crun.value = "cr1"

\* ---- one upload request
StepRank(step) ==
    CASE step = "construct" -> 1 [] step = "network_info" -> 2
      [] step = "feed" -> 3 [] step = "stories" -> 4 [] step = "duplicate" -> 5
      [] step = "creative" -> 6 [] OTHER -> 7
StepsRun == wrun.steps
\* positions of the terminal messages, the log messages and the sentinels
TerminalsPut == {i \in 1 .. Len(log_queue) : log_queue[i].type = "result"}
LogsPut == {i \in 1 .. Len(log_queue) : log_queue[i].type = "log"}
SentinelsPut == {i \in 1 .. Len(log_queue) : log_queue[i].type = "end"}
WorkerRan == wpc # "idle"
\* the request supplies media and the remote side answers every call well
MediaAndAllOk == HasMedia(form) /\ wenv = AllOk

C14_AllOkRequestReachesDone ==
    (wpc = "done" /\ MediaAndAllOk) =>
        \E t \in TerminalsPut :
            /\ log_queue[t] = Terminal(TRUE, "123", "None")
            /\ \A i \in 1 .. (t - 1) : i \in LogsPut

\* C15: on every path the worker puts zero or more log messages, then
\* exactly one terminal message, then exactly one sentinel as the last
\* item; the generator yields every item before the sentinel in queue
\* order and stops at the sentinel.
C15_OneTerminalThenSentinel ==
    /\ \A i \in SentinelsPut : i = Len(log_queue) /\ wpc = "done"
    /\ \A t \in TerminalsPut : \A i \in 1 .. (t - 1) : i \in LogsPut
    /\ Cardinality(TerminalsPut) <= 1
    /\ WorkerRan => Cardinality(TerminalsPut) = 1
    /\ wpc = "done" =>
          /\ Cardinality(SentinelsPut) = 1
          /\ TerminalsPut = {Len(log_queue) - 1}
    /\ gpc = "reading" => stream = SubSeq(log_queue, 1, taken)
    /\ gpc = "closed" =>
          /\ taken = Len(log_queue) /\ log_queue[taken] = Sentinel
          /\ stream = SubSeq(log_queue, 1, taken - 1)
          /\ stream[Len(stream)].type = "result"

\* the request failed with an exception, and the generator yielded the
\* failure message and stopped at the sentinel
C15_Witness ==
    /\ gpc = "closed" /\ HasMedia(form)
    /\ log_queue = <<Terminal(FALSE, "None", "TypeError"), Sentinel>>
    /\ stream = <<Terminal(FALSE, "None", "TypeError")>>

\* C16: for a request whose steps succeed, duplicate_adset is invoked
\* exactly when estrategia is 'garimpo' or destino_conjunto is 'duplicar';
\* then the ad is created in the copy, and otherwise in the target ad set
\* with no copy made.
C16_DuplicatesIffRequested ==
    (wpc = "done" /\ MediaAndAllOk) =>
        /\ wrun.copies = 1 <=> Duplicates(form)
        /\ Duplicates(form) => wrun.ad_adset \in {"copy1", "None"}
        /\ ~Duplicates(form) => wrun.ad_adset \in {TargetAdSet, "None"}

\* C17: every ad-set duplication creates the copy paused and nothing in the
\* duplication path sets the copy active; the copy gets a timestamp suffix
\* exactly when no name is supplied, and a supplied name is applied to it.
C17_CopyPausedAndNamed ==
    \A n \in 1 .. Len(dups) :
        /\ \A i \in 1 .. Len(dups[n].copies) :
              /\ dups[n].copies[i].status_option = "PAUSED"
              /\ dups[n].copies[i].rename.kind = "timestamp_suffix"
                    <=> dups[n].new_name = "None"
              /\ dups[n].new_name # "None" =>
                    dups[n].copies[i].rename.name = dups[n].new_name
        /\ \A i \in 1 .. Len(dups[n].updates) :
              dups[n].updates[i].status # "ACTIVE"

\* ---- helpers of the claims
AlwaysFails == ops > 0 /\ \A k \in DOMAIN thunk : ~thunk[k].ok
KindsOf(log) == [i \in 1 .. Len(log) |-> log[i].kind]
AttemptsOf(log) == [i \in 1 .. Len(log) |-> log[i].attempt]
\* the last n entries of a sequence
LastN(seq, n) == SubSeq(seq, Len(seq) - n + 1, Len(seq))

\* C5: _with_retry given a function that fails on every invocation invokes
\* it exactly 3 times, logs exactly 2 warnings (after attempts 1 and 2),
\* then the final failure entry, and raises.
C5_AlwaysFailingRaisesAfterThree ==
    AlwaysFails =>
        /\ rres.raised /\ ~rres.returned
        /\ rres.invocations = 3
        /\ KindsOf(rres.log) = <<"warn", "warn", "fatal">>
        /\ AttemptsOf(rres.log) = <<1, 2, 3>>
        /\ Len(logs) >= 3 /\ LastN(logs, 3) = rres.log

C5_Witness == AlwaysFails /\ rres.raised /\ rres.invocations = 3

\* C29: given that every remote call, download and tool run returns or
\* fails, every upload request terminates: the worker emits the
\* end-of-stream sentinel and the consumer closes the stream, process_queue
\* returns, and a readiness poll that was entered returns.
C29_EverythingTerminates ==
    /\ (gpc = "reading") ~>
          (/\ wpc = "done" /\ gpc = "closed"
           /\ log_queue # <<>> /\ log_queue[Len(log_queue)] = Sentinel)
    /\ (qpc = "start") ~> Returned
    /\ poll.requested ~> (poll.pc = "returned")

\* a batch of MaxItems items that returned
C29_Witness == Returned /\ Total = MaxItems /\ Len(results) = MaxItems

\* ---- get_identity_data
LookupStarted == idt.mpc \in {"returning", "done"}
PastJoin == idt.mpc \in {"lookup", "returning", "done"}

\* C28: under every interleaving of the pages task and the pixels task the
\* social-account lookup starts only after both tasks have completed and is
\* handed exactly the pages the pages task produced; each task writes its
\* own slot only, and the pages and pixels returned are exactly what each
\* task produced.
C28_IdentityJoinBeforeLookup ==
    /\ PastJoin => idt.ppc = "done" /\ idt.xpc = "done"
    /\ LookupStarted => idt.ig_pages_data = idt.pages_fetched
    /\ idt.ppc # "done" => idt.pages_result = <<>>
    /\ idt.xpc # "done" => idt.pixels_result = <<>>
    /\ idt.ppc = "done" => idt.pages_result = idt.pages_fetched
    /\ idt.xpc = "done" => idt.pixels_result = idt.pixels_fetched
    /\ idt.mpc = "done" =>
          /\ idt.ret.pages = idt.pages_fetched
          /\ idt.ret.pixels = idt.pixels_fetched
          /\ idt.ret.instagrams = idt.pages_fetched

\* a call that returned pages and pixels both fetched non-empty
C28_Witness ==
    /\ idt.mpc = "done"
    /\ idt.ret.pages = <<"page1", "page2">> /\ idt.ret.pixels = <<"pixel1">>
    /\ idt.ig_pages_data = <<"page1", "page2">>

\* ---- upload_media of a local video
VideoPath == ExtOf(mres.path) \in VIDEO_EXTS
FrameExtracted == mres.tool = "ok"
\* the frame tool failed, or every ingestion attempt of the frame did
NoThumbnail ==
    \/ mres.tool # "ok"
    \/ \A k \in Attempts : ~mres.thumbOuts[k].ok
IngestSucceeds == \E k \in Attempts : mres.outs[k].ok
EndsWithWarning(log) == log # <<>> /\ log[Len(log)].kind = "warn"

\* C24: extract_video_thumbnail never raises; when the frame tool is
\* missing, times out, exits non-zero, or the frame's ingestion fails after
\* all retries it logs a warning and returns none, and upload_media of the
\* local video still ingests the video and returns a video asset with
\* thumb_hash none; an extracted frame's temporary file is deleted whether
\* its ingestion succeeded or failed.
C24_ThumbnailIsBestEffort ==
    (mres.done /\ VideoPath) =>
        /\ mres.extract.raised = "None"
        /\ mres.ingested
        /\ NoThumbnail =>
              /\ mres.extract.thumb_hash = "None"
              /\ EndsWithWarning(mres.extract.log)
              /\ logs = mres.extract.log
              /\ IngestSucceeds =>
                    /\ mres.raised = "None"
                    /\ mres.media.type = "video" /\ mres.media.id # "None"
                    /\ mres.media.thumb_hash = "None"
        /\ mres.extract.frame = IF FrameExtracted THEN "deleted" ELSE "none"

\* a local video whose extracted frame failed its ingestion three times,
\* ingested all the same, the frame file deleted
C24_Witness ==
    /\ mres.done /\ VideoPath /\ FrameExtracted /\ NoThumbnail
    /\ mres.extract.frame = "deleted"
    /\ mres.media.type = "video" /\ mres.media.thumb_hash = "None"

\* ---- the creative-creation requests and the polls before them
\* every video id and image hash a request carries, thumbnails included
ReferencedAssets(req) ==
    ({req.asset_feed.videos[i].video_id : i \in 1 .. Len(req.asset_feed.videos)}
     \cup {req.asset_feed.videos[i].image_hash
            : i \in 1 .. Len(req.asset_feed.videos)}
     \cup {req.asset_feed.images[i].hash : i \in 1 .. Len(req.asset_feed.images)}
     \cup {req.story.video_id, req.story.image_hash})
    \ {"None"}
ReportedReady(post, ref) ==
    \E i \in 1 .. Len(post.polled) :
        post.polled[i].ref = ref /\ post.polled[i].ret
PollTimedOut(post) ==
    \E i \in 1 .. Len(post.polled) : post.polled[i].verdict = "timeout"

\* C21: a creative-creation request is sent only after every video id and
\* image hash its payload references, thumbnail hashes of the primary
\* payload's video entries included, was handed to the readiness poller and
\* the poller reported it ready.
C21_RequestOnlyAfterAllAssetsReady ==
    \A n \in 1 .. Len(posts) :
        posts[n].sent =>
            \A ref \in ReferencedAssets(posts[n].request) :
                ReportedReady(posts[n], ref)

\* C23: when the poll of a referenced asset times out, the creative-creation
\* request for that payload is sent all the same and what _post_creative
\* returns is decided by the remote's answer to it.
C23_TimeoutDoesNotAbort ==
    \A n \in 1 .. Len(posts) :
        PollTimedOut(posts[n]) =>
            /\ posts[n].sent
            /\ posts[n].request.resp \in PrimaryResponses
            /\ posts[n].creative_id = posts[n].request.resp.id
            /\ posts[n].error = posts[n].request.resp.error

\* a request sent after a poll timed out and accepted by the remote
C23_Witness ==
    \E n \in 1 .. Len(posts) :
        /\ PollTimedOut(posts[n]) /\ posts[n].sent
        /\ posts[n].creative_id = "cr1"

\* ---- the readiness pollers
PollReturned == poll.pc = "returned"
TransientObservations == {"api_error", "exception"}
TimedOut == poll.elapsed >= TimeoutOf(poll.kind)

\* C22: for videos and for images alike the poller returns true only if
\* some poll observed the ready state; it returns false at once, with no
\* further poll or wait, when a poll observes a terminal failed state; it
\* returns false once the timeout has elapsed without a terminal state; a
\* transient poll error is followed by a wait of one interval and the loop
\* goes on.
C22_PollerVerdicts ==
    /\ poll.ret = "True" => poll.ready_seen
    /\ poll.failed_seen =>
          PollReturned /\ poll.ret = "False" /\ poll.after_failed = 0
    /\ (PollReturned /\ ~poll.ready_seen /\ ~poll.failed_seen) =>
          poll.ret = "False" /\ TimedOut
    /\ poll.last \in TransientObservations =>
          /\ poll.waits = poll.polls
          /\ \/ poll.pc = "loop"
             \/ PollReturned /\ poll.ret = "False" /\ TimedOut
    /\ Len(sleeps) = poll.waits
    /\ \A i \in 1 .. Len(sleeps) : sleeps[i] = IntervalOf(poll.kind)

\* C26: a batch that supplies media but no target ad set fails at once as a
\* validation error: no media-ingest, creative-creation or ad-creation call
\* is issued for any of its items and none of them succeeds.
C26_NoTargetAdSetFailsWithoutCalls ==
    q_adset_id = "None" =>
        /\ \A k \in 1 .. Len(hist) : ~hist[k].called
        /\ adRequests = {}
        /\ \A k \in 1 .. Len(results) : ~results[k].success

\* the validation messages of a request without media: the ValueError of
\* create_creative_with_placements and the terminal message of the worker
NoMediaSent == "Nenhuma mídia enviada"
\* the request carries neither a feed nor a stories medium
FormWithoutMedia == ~form.feed /\ ~form.stories

\* C25: a queue item or an upload request that supplies no media fails at
\* once: no remote call is issued for it, so no _with_retry cycle runs (every
\* cycle issues at least one call), and its outcome is a failure carrying
\* the no-media error.
C25_NoMediaFailsWithoutCalls ==
    /\ \A k \in 1 .. Len(results) :
          NoMedia(items[k]) =>
              /\ ~hist[k].called /\ ~hist[k].failed
              /\ hist[k].ad_id = "None"
              /\ results[k] = FailureRecord(AdNameOf(items[k], k), NoMediaError)
    /\ (wpc # "idle" /\ FormWithoutMedia) =>
          /\ wrun.steps = <<>> /\ wrun.copies = 0 /\ wrun.ad_adset = "None"
          /\ log_queue[1] = Terminal(FALSE, "None", NoMediaSent)
          /\ \A i \in 2 .. Len(log_queue) : log_queue[i] = Sentinel

\* a returned batch holding an item without media, next to an upload
\* request without media that ended
C25_Witness ==
    /\ Returned /\ \E k \in 1 .. Len(results) : NoMedia(items[k])
    /\ wpc = "done" /\ FormWithoutMedia

\* C27: over n items the between-items delay runs exactly once after each of
\* items 1..n-1, whether the item succeeded or failed, never after item n,
\* and only once the item's record has been appended: max(0, n-1) per batch.
C27_DelayBetweenItemsOnly ==
    /\ Len(interDelays) = IF Len(results) < Total THEN Len(results)
                          ELSE IF Total = 0 THEN 0 ELSE Total - 1
    /\ \A j \in 1 .. Len(interDelays) :
          interDelays[j] = j /\ j < Total /\ j <= Len(results)
    /\ Returned =>
          Len(interDelays) = IF Total = 0 THEN 0 ELSE Total - 1

\* a returned batch of several items whose first item failed and was
\* followed by the delay, the last item by none
C27_Witness ==
    /\ Returned /\ Total >= 2
    /\ ~results[1].success
    /\ interDelays = [j \in 1 .. Total - 1 |-> j]

\* the invocation on which the function handed to _with_retry first succeeds,
\* 0 when it never does
FirstSuccess ==
    IF \A k \in Attempts : ~thunk[k].ok THEN 0
    ELSE CHOOSE k \in Attempts :
           thunk[k].ok /\ \A j \in 1 .. k - 1 : ~thunk[j].ok
\* the remote calls and the waits of a _with_retry call that made n
\* invocations, a wait following each of the first n - 1
CallsWithWaits(tr, n) ==
    /\ Len(tr) = 2 * n - 1
    /\ \A i \in 1 .. Len(tr) :
          tr[i].ev = IF i % 2 = 1 THEN "call" ELSE "backoff"
Warnings(log) == {i \in 1 .. Len(log) : log[i].kind = "warn"}

\* C30: when the function first succeeds on invocation k, _with_retry invokes
\* it k times, returns its value, logs k-1 warnings and waits RETRY_BACKOFF
\* k-1 times, once after each failed attempt; when all three attempts fail
\* no wait follows the last failure and the error raised is the third one.
C30_RetryCountsAndLastError ==
    ops > 0 =>
        IF FirstSuccess # 0
        THEN /\ rres.returned /\ ~rres.raised
             /\ rres.invocations = FirstSuccess
             /\ rres.value = thunk[FirstSuccess].val
             /\ Cardinality(Warnings(rres.log)) = FirstSuccess - 1
             /\ Len(rres.log) = FirstSuccess - 1
             /\ rres.sleeps = [i \in 1 .. FirstSuccess - 1 |-> RETRY_BACKOFF]
             /\ CallsWithWaits(netTrace, FirstSuccess)
        ELSE /\ rres.raised /\ ~rres.returned
             /\ rres.invocations = MAX_RETRIES
             /\ rres.error = thunk[MAX_RETRIES].err
             /\ rres.sleeps = [i \in 1 .. MAX_RETRIES - 1 |-> RETRY_BACKOFF]
             /\ CallsWithWaits(netTrace, MAX_RETRIES)

\* a call whose three attempts failed, the third with another error than
\* the first
C30_Witness ==
    /\ ops > 0 /\ FirstSuccess = 0 /\ rres.raised
    /\ thunk[1].err # thunk[3].err /\ rres.error = thunk[3].err

\* ---- the usage entries of a header, whatever their position
EntriesOf(h) ==
    UNION {{h.res[j].entries[i] : i \in 1 .. Len(h.res[j].entries)}
           : j \in 1 .. Len(h.res)}
NumericCounters(e) ==
    \A c \in {e.call_count, e.total_cputime, e.total_time} :
        c.k \in {"num", "missing"}
\* every resource is a list of objects with numeric counters
WellFormed(h) ==
    /\ h.kind = "json_map"
    /\ \A j \in 1 .. Len(h.res) : h.res[j].kind = "list"
    /\ \A e \in EntriesOf(h) : e.kind = "map" /\ NumericCounters(e)
Absent(h) == h.kind \in {"no_headers", "no_key"}
\* some counter of the entry is a number at or above 80
AtOrAbove80(e) ==
    /\ e.kind = "map" /\ NumericCounters(e)
    /\ \E c \in {e.call_count, e.total_cputime, e.total_time} :
          c.k = "num" /\ c.n >= 80
Paused == sleeps # <<>>

\* C6: check_rate_limit pauses for the cool-down and logs a pause and a
\* resume entry exactly when some usage entry has a counter maximum >= 80
\* (80 itself included); otherwise it returns at once with no pause and no
\* log entry.  It pauses at most once per call.
C6_PauseIffThresholdMet ==
    (rl.done /\ (WellFormed(hdr) \/ Absent(hdr))) =>
        /\ rl.raised = "None"
        /\ Paused <=> (\E e \in EntriesOf(hdr) : AtOrAbove80(e))
        /\ Paused => /\ sleeps = <<RATE_LIMIT_PAUSE_SECONDS>>
                     /\ KindsOf(logs) = <<"pause", "resume">>
                     /\ logs[1].attempt >= 80
                     /\ rl.ret
        /\ ~Paused => logs = <<>> /\ ~rl.ret

\* two entries meet the threshold, one of them at exactly 80 through
\* total_time alone, and the call paused once
C6_Witness ==
    /\ rl.done /\ WellFormed(hdr)
    /\ Cardinality({e \in EntriesOf(hdr) : AtOrAbove80(e)}) >= 2
    /\ \E e \in EntriesOf(hdr) :
          /\ e.total_time = Num(80)
          /\ e.call_count = Num(79) /\ e.total_cputime = Missing
    /\ sleeps = <<RATE_LIMIT_PAUSE_SECONDS>>

\* a header with a defect and no well-formed entry that meets the threshold
Malformed(h) ==
    /\ ~WellFormed(h)
    /\ h.kind \notin {"no_headers", "no_key"}
    /\ ~\E e \in EntriesOf(h) : AtOrAbove80(e)

\* C7: with an absent or malformed usage header (missing, not JSON, JSON
\* that is not a mapping, a resource that is not a list, an entry that is
\* not a mapping, non-numeric counters) check_rate_limit does not raise,
\* does not sleep and leaves the log unchanged.
C7_MalformedHeaderIsNoOp ==
    (rl.done /\ (Absent(hdr) \/ Malformed(hdr))) =>
        rl.raised = "None" /\ sleeps = <<>> /\ logs = <<>>

\* ---- remote calls and cool-downs
IsCall(ev) == ev.ev = "call"
MetThreshold(ev) == IsCall(ev) /\ ev.usage >= 80
\* between a response that met the threshold and the next call there is a
\* cool-down
GatedTrace(tr) ==
    \A i, j \in 1 .. Len(tr) :
        (i < j /\ MetThreshold(tr[i]) /\ IsCall(tr[j])) =>
            \E k \in (i + 1) .. (j - 1) : tr[k].ev = "cooldown"
\* a trace that issues a call before any cool-down
CallsFirst(tr) ==
    \E j \in 1 .. Len(tr) :
        IsCall(tr[j]) /\ \A k \in 1 .. (j - 1) : tr[k].ev # "cooldown"

\* C8: every remote call issued through _with_retry is gated by the rate
\* limiter: after a response whose usage is >= 80 the uploader issues no
\* further remote call until a cool-down pause has completed.
C8_RemoteCallsGated ==
    [][/\ GatedTrace(netTrace')
       /\ usageDue => ~CallsFirst(netTrace')]_vars

\* ---- the asset entries of a payload
Supplied(m) == m # NoneMedia
\* the images entries and the videos entries under a label
ImagesUnder(p, label) == {i \in 1 .. Len(p.images) : p.images[i].label = label}
VideosUnder(p, label) == {i \in 1 .. Len(p.videos) : p.videos[i].label = label}
\* exactly one entry carries the label and it references asset m in the
\* list matching m's type
BoundOnce(p, label, m) ==
    IF m.type = "image"
    THEN /\ VideosUnder(p, label) = {}
         /\ Cardinality(ImagesUnder(p, label)) = 1
         /\ \A i \in ImagesUnder(p, label) : p.images[i].hash = m.hash
    ELSE /\ ImagesUnder(p, label) = {}
         /\ Cardinality(VideosUnder(p, label)) = 1
         /\ \A i \in VideosUnder(p, label) : p.videos[i].video_id = m.id
\* the labels under which asset m has an entry
LabelsOf(p, m) ==
    IF m.type = "image"
    THEN {p.images[i].label : i \in {j \in 1 .. Len(p.images) : p.images[j].hash = m.hash}}
    ELSE {p.videos[i].label : i \in {j \in 1 .. Len(p.videos) : p.videos[j].video_id = m.id}}
SameAsset(a, b) == a.type = b.type /\ a.hash = b.hash /\ a.id = b.id
OnlyOneSupplied == Supplied(cin.feed) # Supplied(cin.stories)
TheSupplied == IF Supplied(cin.feed) THEN cin.feed ELSE cin.stories

\* C9: with exactly one of feed and stories media supplied, the primary
\* payload has exactly two asset entries, one labelled feed_creative and
\* one labelled story_creative, both referencing the supplied asset, and
\* exactly two customization rules; nothing is raised.
C9_SingleMediaReusedForBothLabels ==
    (cout.done /\ OnlyOneSupplied) =>
        /\ cout.raised = "None"
        /\ Len(cout.payload.images) + Len(cout.payload.videos) = 2
        /\ BoundOnce(cout.payload, "feed_creative", TheSupplied)
        /\ BoundOnce(cout.payload, "story_creative", TheSupplied)
        /\ Len(cout.payload.rules) = 2

\* only a stories video was supplied and the payload was built
C9_Witness ==
    /\ cout.done /\ cin.feed = NoneMedia /\ cin.stories.type = "video"
    /\ Len(cout.payload.videos) = 2

\* C10: with distinct feed and stories assets supplied, the primary payload
\* has one asset entry per label: the feed asset only under feed_creative,
\* the stories asset only under story_creative, each in the list of its
\* type, and exactly two customization rules.
C10_DistinctMediaOneEntryPerLabel ==
    (/\ cout.done /\ Supplied(cin.feed) /\ Supplied(cin.stories)
     /\ ~SameAsset(cin.feed, cin.stories)) =>
        /\ cout.raised = "None"
        /\ Len(cout.payload.images) + Len(cout.payload.videos) = 2
        /\ BoundOnce(cout.payload, "feed_creative", cin.feed)
        /\ BoundOnce(cout.payload, "story_creative", cin.stories)
        /\ LabelsOf(cout.payload, cin.feed) = {"feed_creative"}
        /\ LabelsOf(cout.payload, cin.stories) = {"story_creative"}
        /\ Len(cout.payload.rules) = 2

\* a feed image with a stories video, as in test_dual_media
C10_Witness ==
    /\ cout.done /\ cin.feed.type = "image" /\ cin.stories.type = "video"
    /\ Len(cout.payload.images) = 1 /\ Len(cout.payload.videos) = 1

\* ---- smart_delay after the steps of one item and of one request
\* every step followed by smart_delay has its delay right after it when it
\* returned and is the last event when it raised; every delay follows such
\* a step that returned; the feed's delay comes before the stories' event
DelaysFollowSuccess(t) ==
    /\ \A i \in 1 .. Len(t) :
          /\ (t[i].ev \in DelayedSteps /\ t[i].ok) =>
                i < Len(t) /\ t[i + 1] = SmartDelay
          /\ ~t[i].ok => i = Len(t)
          /\ t[i] = SmartDelay =>
                i > 1 /\ t[i - 1].ev \in DelayedSteps /\ t[i - 1].ok
    /\ \A i, j \in 1 .. Len(t) :
          (t[i].ev = "feed" /\ t[j].ev = "stories") =>
              i + 1 < j /\ t[i + 1] = SmartDelay

\* C31: in the upload worker and in process_queue, smart_delay runs exactly
\* once after each successful media resolution, ad-set duplication and
\* creative assembly, never after a step that failed, and the feed
\* resolution and its delay are over before the stories resolution begins.
C31_DelayAfterEachSuccessfulStep ==
    /\ DelaysFollowSuccess(cur.trace)
    /\ DelaysFollowSuccess(wrun.trace)
    /\ (qpc \in {"stories", "creative", "ad"}
          /\ items[qi].feed_file_path # "None") =>
              SubSeq(cur.trace, 1, 2) = <<StepEvent("feed", TRUE), SmartDelay>>
    /\ (qpc \in {"creative", "ad"} /\ items[qi].stories_file_path # "None") =>
          \E i \in 2 .. Len(cur.trace) - 1 :
              /\ cur.trace[i] = StepEvent("stories", TRUE)
              /\ cur.trace[i + 1] = SmartDelay

\* both media of an item were resolved, each followed by its delay, and
\* the creative step then failed with no delay after it
C31_Witness ==
    /\ qpc = "except"
    /\ cur.trace = <<StepEvent("feed", TRUE), SmartDelay,
                     StepEvent("stories", TRUE), SmartDelay,
                     StepEvent("creative", FALSE)>>
\* ---- _download_file
\* the body the first save wrote was taken for a confirmation page
GotInterstitial ==
    dl.res.saved # <<>> /\ dl.res.saved[1].small /\ dl.res.saved[1].html
\* the GETs sent after the first save
ReRequests ==
    LET plain == IF dl.first.cookie # "None" THEN 2 ELSE 1
    IN SubSeq(dl.res.gets, plain + 1, Len(dl.res.gets))

\* C34: _download_file, on a confirmation interstitial, re-requests exactly
\* once, with the token of the page when one is extractable and with the
\* generic confirmation flag otherwise; it returns true only if the file
\* last saved is not detected as an HTML interstitial; whenever it returns
\* false the destination file does not exist afterwards.
C34_DownloadConfirmsOnceAndCleansUp ==
    dl.done =>
        /\ GotInterstitial =>
              ReRequests = <<IF dl.res.saved[1].confirm # "None"
                             THEN dl.res.saved[1].confirm ELSE "t">>
        /\ ~GotInterstitial => ReRequests = <<>>
        /\ dl.res.ret =>
              /\ dl.res.saved # <<>>
              /\ LET final == dl.res.saved[Len(dl.res.saved)]
                 IN IF Len(dl.res.saved) = 1
                    THEN ~(final.small /\ final.html)
                    ELSE ~(final.small /\ final.html_head)
              /\ dl.res.exists
        /\ ~dl.res.ret => ~dl.res.exists

\* a page without a token was saved, the re-request carried the generic
\* flag and brought another page: the call returned false and the file is
\* gone
C34_Witness ==
    /\ dl.done /\ dl.res.saved = <<Interstitial("None"), Interstitial("tk1")>>
    /\ dl.res.gets = <<"None", "t">>
    /\ ~dl.res.ret /\ ~dl.res.exists
\* ---- upload_media of a URL
\* the platform messages that hold one of the cannot-fetch phrases, and the
\* errors that hold 'image' or 'not a video'
MatchingMessages == {"Could not download file", "Problem reading image"}
ImageSuggesting == {"File is Not a Video", "Problem reading image"}
LastEvents == um.call.last
Downloads == {i \in 1 .. Len(LastEvents) :
                LastEvents[i] \in {"download_ok", "download_failed"}}

\* C32: in upload_video_url and upload_image_url the platform-side fetch
\* comes first; a local download is attempted only after the platform
\* rejected the URL with a message matching the cannot-fetch phrasing, and
\* the local file is ingested only after that download succeeded; a
\* rejection whose message does not match never triggers a download.
C32_PlatformFetchFirst ==
    LastEvents # <<>> =>
        /\ LastEvents[1] = "post"
        /\ \A i \in 2 .. Len(LastEvents) : LastEvents[i] # "post"
        /\ \A i \in Downloads :
              /\ i = 2
              /\ um.call.lastPost = "error"
              /\ um.call.lastMsg \in MatchingMessages
        /\ \A i \in 1 .. Len(LastEvents) :
              LastEvents[i] \in {"ingest", "extract"} =>
                  \E j \in 1 .. (i - 1) : LastEvents[j] = "download_ok"
        /\ (um.call.lastPost = "error" /\ um.call.lastMsg \notin MatchingMessages)
              => LastEvents = <<"post">>
        /\ um.call.lastPost # "error" => LastEvents = <<"post">>

\* the platform could not fetch a video URL, the bytes were downloaded and
\* the local file was ingested
C32_Witness ==
    /\ um.call.lastBy = "video"
    /\ um.call.lastMsg = "Could not download file"
    /\ LastEvents = <<"post", "download_ok", "extract", "ingest", "unlink">>
    /\ um.call.media.id = "V2"

\* C33: for a URL treated as video, a video attempt that finally fails with
\* an error suggesting an image is followed by exactly one image resolution
\* of the same URL, whose result is the outcome; any other final failure
\* propagates with no image attempt.
C33_VideoFailureEscalatesToImageOnce ==
    um.call.treated = "video" =>
        /\ um.call.imageRuns <= 1
        /\ um.call.imageRuns = 1 <=> um.call.videoErr \in ImageSuggesting
        /\ um.call.phase = "image" => um.call.imageRuns = 1
        /\ (um.call.phase = "done" /\ um.call.imageRuns = 1) =>
              /\ um.call.lastBy = "image"
              /\ \/ /\ um.call.media = ImageDescriptor(um.call.media.hash, um.call.url)
                    /\ um.call.media.hash \in {"H1", "H2"}
                    /\ um.call.raised = "None"
                 \/ /\ um.call.media = NoneMedia
                    /\ um.call.raised \notin {"None", um.call.videoErr}
                       \/ um.call.lastMsg = um.call.raised
        /\ (um.call.phase = "done" /\ um.call.videoErr # "None"
              /\ um.call.videoErr \notin ImageSuggesting) =>
              /\ um.call.raised = um.call.videoErr
              /\ um.call.media = NoneMedia
              /\ um.call.lastBy = "video"

\* the video attempts of a drive link ended with 'not a video', and the
\* image resolution of the same link gave the descriptor
C33_Witness ==
    /\ um.call.phase = "done" /\ um.call.url = "drive_share"
    /\ um.call.treated = "video"
    /\ um.call.videoErr = "File is Not a Video"
    /\ um.call.media.type = "image" /\ um.call.media.hash = "H1"

\* C35: every descriptor upload_media returns has a hash and no id when its
\* type is image, and an id and no hash when its type is video.
C35_ExactlyOneReference ==
    /\ um.call.media # NoneMedia =>
          /\ um.call.media.type = "image" =>
                um.call.media.hash # "None" /\ um.call.media.id = "None"
          /\ um.call.media.type = "video" =>
                um.call.media.id # "None" /\ um.call.media.hash = "None"
    /\ (mres.done /\ mres.media # NoneMedia) =>
          /\ mres.media.type = "image" =>
                mres.media.hash # "None" /\ mres.media.id = "None"
          /\ mres.media.type = "video" =>
                mres.media.id # "None" /\ mres.media.hash = "None"

\* C39: the thumb_hash of a video descriptor resolved from a URL is none or
\* a thumbnail extracted during the resolution of that same URL, never one
\* extracted while an earlier asset was resolved.
C39_ThumbnailBelongsToItsCall ==
    (um.call.phase = "done" /\ um.call.media.type = "video") =>
        \/ um.call.media.thumb_hash = "None"
        \/ /\ um.call.media.thumb_hash \in {ThumbName(um.n, k) : k \in Attempts}
           /\ um.call.media.thumb_hash # um.left

\* an earlier call left an extracted thumbnail behind, and the platform
\* fetched the next video URL itself: its descriptor has no thumbnail
C39_Witness ==
    /\ um.n = 2 /\ um.left = "T11"
    /\ um.call.phase = "done" /\ um.call.media.type = "video"
    /\ um.call.last = <<"post">> /\ um.call.thumbs = {}
    /\ um.call.media.thumb_hash = "None"
\* ---- temporary files of concurrent requests
\* the worker has written its file and has not yet unlinked it
UsesTemp(i) == tf.w[i].pc \in {"written", "ingested"}

\* C40: when two upload requests run concurrently, each with its own
\* uploader, the temporary paths they use are distinct, so no worker's write
\* or cleanup overwrites or deletes a file another worker is still using.
C40_TempFilesNotShared ==
    /\ \A i, j \in Workers :
          (i # j /\ tf.w[i].path # NoPath /\ tf.w[j].path # NoPath) =>
              tf.w[i].path # tf.w[j].path
    /\ \A i \in Workers : UsesTemp(i) => tf.files[tf.w[i].path] = i

(* ======================= thumbnail precedence =========================== *)
\* the fallback strategy went to source_url for a thumbnail
Rederived ==
    \E i \in 1 .. Len(crun.log) : crun.log[i].detail = "thumb_from_source"
PairedImage == StoriesUsed.type = "image"
ExtractedThumb == FeedUsed.thumb_hash # "None"

\* C36: in the fallback strategy the thumbnail of a video feed asset is the
\* paired stories image hash when the stories asset is an image, else the
\* thumbnail extracted at upload (thumb_hash), else one re-derived just in
\* time from source_url; the re-derivation is never performed when a
\* paired image or an extracted thumbnail exists.
C36_ThumbnailPrecedence ==
    (crun.done /\ crun.raised # "ValueError" /\ FeedUsed.type = "video") =>
        /\ (PairedImage \/ ExtractedThumb) => ~Rederived
        /\ \A k \in RunsOf : \A j \in FallbackOf(k) :
              LET h == RequestsOf(k)[j].story.image_hash
              IN /\ PairedImage => h = StoriesUsed.hash
                 /\ (~PairedImage /\ ExtractedThumb) => h = FeedUsed.thumb_hash
                 /\ (~PairedImage /\ ~ExtractedThumb) =>
                       IF FeedUsed.source_url # "None"
                       THEN /\ Rederived
                            /\ h = IF crun.derive = "ok" THEN DerivedThumb
                                   ELSE "None"
                       ELSE h = "None"

\* a URL-resolved video with an extracted thumbnail and a paired stories
\* image: the fallback request carried the stories image hash
C36_Witness ==
    /\ crun.done
    /\ cin.feed = FromUrl(VideoMedia("V1", "T1"), "url1")
    /\ cin.stories = ImageMedia("H2")
    /\ \E k \in RunsOf : \E j \in FallbackOf(k) :
          RequestsOf(k)[j].story.image_hash = "H2"
    /\ ~Rederived


(* ==================== the primary payload's rules ======================= *)
\* the rules of payload p that bind label through key
RulesBinding(p, key, label) ==
    {i \in 1 .. Len(p.rules) : p.rules[i].key = key /\ p.rules[i].name = label}
\* the rules of payload p that name label at all
RulesNaming(p, label) ==
    {i \in 1 .. Len(p.rules) : p.rules[i].name = label}
RuleOf(p, placement) ==
    {i \in 1 .. Len(p.rules) : p.rules[i].placement = placement}
InFormats(p, f) == \E i \in 1 .. Len(p.ad_formats) : p.ad_formats[i] = f

\* C37: in the primary payload every labelled asset entry is bound by
\* exactly one placement rule: the feed rule names feed_creative, the
\* stories rule names story_creative, through image_label when the entry
\* is in the images list and video_label when it is in the videos list;
\* ad_formats holds SINGLE_IMAGE iff the images list is non-empty and
\* SINGLE_VIDEO iff the videos list is non-empty; every creative feature
\* of degrees_of_freedom_spec has enroll_status OPT_OUT.
C37_PayloadRulesAndFormats ==
    (cout.done /\ cout.raised = "None") =>
        LET p == cout.payload
        IN /\ \A i \in 1 .. Len(p.images) :
                 /\ Cardinality(RulesBinding(p, "image_label", p.images[i].label)) = 1
                 /\ Cardinality(RulesNaming(p, p.images[i].label)) = 1
           /\ \A i \in 1 .. Len(p.videos) :
                 /\ Cardinality(RulesBinding(p, "video_label", p.videos[i].label)) = 1
                 /\ Cardinality(RulesNaming(p, p.videos[i].label)) = 1
           /\ Cardinality(RuleOf(p, "feed")) = 1
           /\ Cardinality(RuleOf(p, "stories")) = 1
           /\ \A i \in RuleOf(p, "feed") : p.rules[i].name = "feed_creative"
           /\ \A i \in RuleOf(p, "stories") : p.rules[i].name = "story_creative"
           /\ InFormats(p, "SINGLE_IMAGE") <=> (p.images # <<>>)
           /\ InFormats(p, "SINGLE_VIDEO") <=> (p.videos # <<>>)
           /\ DOMAIN p.creative_features # {}
           /\ \A f \in DOMAIN p.creative_features :
                 p.creative_features[f] = "OPT_OUT"

\* a feed video with a stories image: the feed rule binds through
\* video_label, the stories rule through image_label, both formats listed
C37_Witness ==
    /\ cout.done /\ cout.raised = "None"
    /\ cin.feed.type = "video" /\ cin.stories.type = "image"
    /\ RulesBinding(cout.payload, "video_label", "feed_creative") # {}
    /\ RulesBinding(cout.payload, "image_label", "story_creative") # {}
    /\ Len(cout.payload.ad_formats) = 2


(* ================= the requests of one creative call ==================== *)
PrimaryOf(k) ==
    {j \in 1 .. Len(RequestsOf(k)) : RequestsOf(k)[j].label = "complex"}
Accepted(req) == req.resp.id # "None"
RECURSIVE RequestsUpTo(_)
\* the number of requests of the runs 1 .. k
RequestsUpTo(k) ==
    IF k = 0 THEN 0 ELSE Len(RequestsOf(k)) + RequestsUpTo(k - 1)

\* C38: one call of create_creative_with_placements runs the strategy
\* chain at most MAX_RETRIES (3) times; each run sends at most one primary
\* request and at most two fallback requests, hence at most nine requests
\* per call; a run that follows one whose requests were all rejected
\* starts again from the primary strategy; the first accepted request is
\* the last request of the call.
C38_BoundedCreativeRequests ==
    crun.done =>
        /\ Len(crun.runs) <= 3
        /\ RequestsUpTo(Len(crun.runs)) <= 9
        /\ \A k \in RunsOf :
              /\ Cardinality(PrimaryOf(k)) <= 1
              /\ Cardinality(FallbackOf(k)) <= 2
              /\ PrimaryOf(k) \cup FallbackOf(k) = 1 .. Len(RequestsOf(k))
              /\ k > 1 =>
                    /\ \A j \in 1 .. Len(RequestsOf(k - 1)) :
                          ~Accepted(RequestsOf(k - 1)[j])
                    /\ RequestsOf(k)[1].label = "complex"
              /\ \A j \in 1 .. Len(RequestsOf(k)) :
                    Accepted(RequestsOf(k)[j]) =>
                        k = Len(crun.runs) /\ j = Len(RequestsOf(k))

\* three runs of three requests each, the ninth request accepted
C38_Witness ==
    /\ crun.done /\ Len(crun.runs) = 3
    /\ RequestsUpTo(3) = 9
    /\ Accepted(RequestsOf(3)[3])
    /\ crun.raised = "None"

====
